---- MODULE Spec2Model ----
(***************************************************************************)
(* Model of the Shotgrid delivery pipeline of OpenPype                     *)
(* (openpype/modules/delivery/scripts/sg_delivery.py): the playlist and    *)
(* version entry points of deliver / republish / generate delivery media,  *)
(* the report accumulator, the farm submission and the publish manifest.   *)
(***************************************************************************)
EXTENDS Integers, Sequences, FiniteSets, TLC

\* ------------------------------------------------------------------ bounds
\* Longest playlist (number of SG Versions returned by sg.find) explored.
MaxVersions == 2
\* Longest list of file names given to _translate_to_sequence, and most
\* representations on an instance given to the transcode extractor.
MaxFiles == 4
MaxRepres == 2

\* ------------------------------------------------------------- the world
\* Tracking-system (Shotgrid) Version entities.  sg_op_instance_id is the
\* cross reference written by the integrator: "" (never set), "-" (no
\* versionEntity) or the id of the pipeline version.
SGVersions ==
    { [id |-> 1, code |-> "sh010_plate_v001", sg_op_instance_id |-> ""],
      [id |-> 2, code |-> "sh010_plate_v002", sg_op_instance_id |-> "-"],
      [id |-> 3, code |-> "sh010_comp_v001",  sg_op_instance_id |-> "op3"],
      [id |-> 4, code |-> "sh010_comp_v002",  sg_op_instance_id |-> "op4"],
      [id |-> 5, code |-> "sh010_comp_v003",  sg_op_instance_id |-> "op5"],
      [id |-> 6, code |-> "sh020_comp_v001",  sg_op_instance_id |-> "op6"],
      [id |-> 7, code |-> "sh020_comp_v002",  sg_op_instance_id |-> "op7"] }

\* Projects known to Shotgrid, and those present in the pipeline's store.
SGProjects == {"prj", "ghost"}
AvalonProjects == {"prj"}

\* Pipeline (OP) version documents, by id.  "op3" has no document.
OpVersionIds == {"op4", "op5", "op6", "op7"}
OpVersionDocs ==
    [ op4 |-> [name |-> 2, subset |-> "compMain", families |-> <<"render">>,
               frameStart |-> 1001, frameEnd |-> 1002,
               handleStart |-> 0, handleEnd |-> 0,
               comment |-> "", fps |-> 24, source |-> "comp_v002.nk"],
      op5 |-> [name |-> 3, subset |-> "compMain", families |-> <<"render">>,
               frameStart |-> 1001, frameEnd |-> 1003,
               handleStart |-> 1, handleEnd |-> 2,
               comment |-> "first pass", fps |-> 24, source |-> "comp_v003.nk",
               colorspace |-> "ACEScg"],
      op6 |-> [name |-> 1, subset |-> "compFg", families |-> <<"render">>,
               frameStart |-> 1009, frameEnd |-> 1010,
               handleStart |-> 8, handleEnd |-> 8,
               comment |-> "", fps |-> 25, source |-> "fg_v001.nk"],
      op7 |-> [name |-> 2, subset |-> "compFg", families |-> <<"render", "review">>,
               frameStart |-> 1001, frameEnd |-> 1001,
               handleStart |-> 0, handleEnd |-> 1,
               comment |-> "paint fix", fps |-> 24, source |-> "fg_v002.nk",
               colorspace |-> "ACEScg"] ]

\* What the pattern \d+(?=\.\w+$) finds in the file name of an 'exr'
\* representation's path: the text before the frame number, the frame
\* number and the extension after it.
FileNameParts ==
    [ n \in {"comp.1001.exr", "fg.1009.exr", "fg.1001.exr"} |->
        CASE n = "comp.1001.exr" -> [head |-> "comp.", frame |-> "1001", tail |-> ".exr"]
          [] n = "fg.1009.exr"   -> [head |-> "fg.", frame |-> "1009", tail |-> ".exr"]
          [] n = "fg.1001.exr"   -> [head |-> "fg.", frame |-> "1001", tail |-> ".exr"] ]

\* Representations published for each pipeline version, in database order:
\* name, context and path (a path is the sequence of its components).
OpRepresentations ==
    [ op3 |-> <<>>,
      op4 |-> << [name |-> "thumbnail", asset |-> "sh010", task |-> "comp",
                 family |-> "render", frame |-> "", version |-> 2,
                 path |-> <<"proj", "prj", "sh010", "v002", "thumb.jpg">>,
                 files |-> <<"thumb.jpg">>] >>,
      op5 |-> << [name |-> "exr", asset |-> "sh010", task |-> "comp",
                 family |-> "render", frame |-> "1001", version |-> 3,
                 path |-> <<"proj", "prj", "sh010", "v003", "comp.1001.exr">>,
                 files |-> <<"comp.1001.exr", "comp.1002.exr">>],
                [name |-> "thumbnail", asset |-> "sh010", task |-> "comp",
                 family |-> "render", frame |-> "", version |-> 3,
                 path |-> <<"proj", "prj", "sh010", "v003", "thumb.jpg">>,
                 files |-> <<"thumb.jpg">>] >>,
      op6 |-> << [name |-> "exr", asset |-> "sh020", task |-> "comp",
                 family |-> "render", frame |-> "1009", version |-> 1,
                 path |-> <<"proj", "prj", "sh020", "v001", "fg.1009.exr">>,
                 files |-> <<"fg.1009.exr", "fg.1010.exr">>],
                [name |-> "mov", asset |-> "sh020", task |-> "comp",
                 family |-> "render", frame |-> "", version |-> 1,
                 path |-> <<"proj", "prj", "sh020", "v001", "fg.mov">>,
                 files |-> <<"fg.mov">>],
                [name |-> "thumbnail", asset |-> "sh020", task |-> "comp",
                 family |-> "render", frame |-> "", version |-> 1,
                 path |-> <<"proj", "prj", "sh020", "v001", "thumb.jpg">>,
                 files |-> <<"thumb.jpg">>] >>,
      op7 |-> << [name |-> "exr", asset |-> "sh020", task |-> "paint",
                 family |-> "render", frame |-> "1001", version |-> 0,
                 path |-> <<"proj", "prj", "sh020", "v000", "fg.1001.exr">>,
                 files |-> <<"fg.1001.exr", "fg.1002.exr">>] >> ]

\* Representation names of the last version of each delivery subset
\* ("delivery_<subset>"); a subset without a delivery version has none.
DeliverySubsetRepresentations ==
    [ delivery_compMain |-> {},
      delivery_compFg   |-> {"exr", "mov", "thumbnail"} ]

\* Representation names the Shotgrid hierarchy overrides ask for, by SG
\* Version id, and the level they were found at.
SGOverrideNames ==
    [ i \in 1..7 |->
        CASE i = 5 -> [names |-> <<"mov">>, entity |-> "Shot"]
          [] i = 6 -> [names |-> <<"mov">>, entity |-> "Project"]
          [] OTHER -> [names |-> <<>>, entity |-> "None"] ]

\* Inputs of the entry points.
DeliveryTypeLists == { <<"review">>, <<"review", "final">> }
RepresentationNameLists == { <<>>, <<"exr", "thumbnail">> }
TemplateDicts == { "None", "templates" }
\* The delivery_templates dictionary when one is given, and the code of
\* the project in its anatomy.
TemplateEntries ==
    [ k \in { "Sequence", "Single File", "V0 Sequence", "V0 Single File" } |->
        CASE k = "Sequence" -> "{shot}/{name}.{frame}.{ext}"
          [] k = "Single File" -> "{shot}/{name}.{ext}"
          [] k = "V0 Sequence" -> "v0/{name}.{frame}.{ext}"
          [] k = "V0 Single File" -> "v0/{name}.{ext}" ]
ProjectCode == "PRJ"
Descriptions == { "", "client" }
FarmJobIds == { "", "65f0c1" }

\* Delivery-name overrides of the Shotgrid hierarchy (Project, Shot), the
\* destination paths check_destination_path refuses, and the source files
\* deliver_single_file fails to deliver.
ProjectDeliveryName == "PRJ_CLIENT"
ShotDeliveryName == ""
DestinationCollisions == { <<"proj", "prj", "sh020", "v001", "thumb.jpg">> }
FailingFiles == { "comp.1002.exr" }
UnknownVersionIds == {99}

Functions ==
    { "deliver_playlist_id", "deliver_version_id",
      "republish_playlist_id", "republish_version_id",
      "generate_delivery_media_playlist_id",
      "generate_delivery_media_version_id" }

PlaylistFunctions ==
    { "deliver_playlist_id", "republish_playlist_id",
      "generate_delivery_media_playlist_id" }

\* ------------------------------------------------------------ the report
\* collections.defaultdict(list): message -> ordered list of sub messages.
EmptyReport == [k \in {} |-> <<>>]

\* report_items[msg].append(sub_msg)
ReportAppend(report, msg, sub_msg) ==
    IF msg \in DOMAIN report
    THEN [report EXCEPT ![msg] = Append(@, sub_msg)]
    ELSE [k \in DOMAIN report \cup {msg} |->
            IF k = msg THEN <<sub_msg>> ELSE report[k]]

\* report_items[msg] = value
ReportSet(report, msg, value) ==
    [k \in DOMAIN report \cup {msg} |-> IF k = msg THEN value ELSE report[k]]

\* dict.update: every key of new replaces the value stored in report.
DictUpdate(report, new) ==
    [k \in DOMAIN report \cup DOMAIN new |->
        IF k \in DOMAIN new THEN new[k] ELSE report[k]]

\* if new_report_items: report_items.update(new_report_items)
ReportUpdate(report, new) ==
    IF DOMAIN new # {} THEN DictUpdate(report, new) ELSE report

\* Python's repr of a list of strings, as the f-strings print it.
RECURSIVE ListReprTail(_)
ListReprTail(l) ==
    IF l = <<>> THEN ""
    ELSE ", '" \o Head(l) \o "'" \o ListReprTail(Tail(l))

ListRepr(l) ==
    IF l = <<>> THEN "[]"
    ELSE "['" \o Head(l) \o "'" \o ListReprTail(Tail(l)) \o "]"

MissingIdMsg == "Missing 'sg_op_instance_id' field on SG Versions"
NoOpVersionMsg == "No OP version found for SG versions"
NoExrMsg == "No 'exr' representation found on SG versions"
NoRepresentationsMsg == "None of the representations requested found on SG Versions"
AlreadyExistMsg(delivery_types) ==
    "Requested '" \o ListRepr(delivery_types) \o "' representations already exist"
ProjectNotFoundMsg(project_name) ==
    "Didn't find project '" \o project_name \o "' in avalon."
SuccessMsg == "Successful delivered representations"

\* f"{sg_version['code']} - id: {sg_version['id']}<br>"
SubMsg(sg_version) ==
    sg_version.code \o " - id: " \o ToString(sg_version.id) \o "<br>"

\* f"{project_name} - {sg_version['code']} - id: {sg_version['id']}<br>"
ProjectSubMsg(project_name, sg_version) ==
    project_name \o " - " \o SubMsg(sg_version)

\* ------------------------------------------------------ pipeline queries
\* get_project(project_name): the project document, if any.
get_project(project_name) == project_name \in AvalonProjects

\* get_version_by_id(project_name, op_version_id): found or not.
HasVersionDoc(op_version_id) == op_version_id \in OpVersionIds

\* get_representations(project_name, version_ids=[op_version_id])
get_representations(op_version_id) ==
    IF op_version_id \in DOMAIN OpRepresentations
    THEN OpRepresentations[op_version_id] ELSE <<>>

\* {rep["name"] for rep in representations}
RepNames(representations) ==
    { representations[i].name : i \in DOMAIN representations }

\* get_representation_by_name(project_name, "exr", version_id=...): the
\* representations of that name (none, or one).
get_representation_by_name(name, op_version_id) ==
    SelectSeq(get_representations(op_version_id), LAMBDA r : r.name = name)

\* get_last_version_by_subset_name + get_representations of that version.
LastDeliveryRepNames(delivery_subset_name) ==
    IF delivery_subset_name \in DOMAIN DeliverySubsetRepresentations
    THEN DeliverySubsetRepresentations[delivery_subset_name] ELSE {}

\* delivery.get_representation_names(sg, id, "Version", delivery_types)
get_representation_names(sg_version) == SGOverrideNames[sg_version.id].names

\* set(l) of a list
ToSet(l) == { l[i] : i \in DOMAIN l }

\* os.path.dirname / os.path.join on component sequences.
Dirname(path) == SubSeq(path, 1, Len(path) - 1)
Join(path, name) == Append(path, name)

\* The result of a per-version function that returns early.
Returned(report, success) ==
    [outcome |-> "return", report |-> report, success |-> success]
Proceed(representation_names) ==
    [outcome |-> "build", report |-> EmptyReport, success |-> TRUE,
     representation_names |-> representation_names]

\* ---------------------------------------------------- republish_version
\* The existing-representation check made whatever force is.
RepublishExistingCheck_ForceIgnored(sg_version, delivery_types, representation_names, force) ==
    LET names == IF representation_names = <<>>
                 THEN get_representation_names(sg_version)
                 ELSE representation_names
        existing_rep_names ==
            RepNames(get_representations(sg_version.sg_op_instance_id))
        missing_rep_names == ToSet(names) \ existing_rep_names
    IN  IF missing_rep_names = {}
        THEN Returned(ReportAppend(EmptyReport,
                                   AlreadyExistMsg(delivery_types),
                                   SubMsg(sg_version)), TRUE)
        ELSE Proceed(names)

\* The existing-representation check with its test inverted: the version
\* is left alone when names are missing and republished when none is.
RepublishExistingCheck_Inverted(sg_version, delivery_types, representation_names, force) ==
    IF force THEN Proceed(representation_names)
    ELSE LET names == IF representation_names = <<>>
                      THEN get_representation_names(sg_version)
                      ELSE representation_names
             existing_rep_names ==
                 RepNames(get_representations(sg_version.sg_op_instance_id))
             missing_rep_names == ToSet(names) \ existing_rep_names
         IN  IF missing_rep_names # {}
             THEN Returned(ReportAppend(EmptyReport,
                                        AlreadyExistMsg(delivery_types),
                                        SubMsg(sg_version)), TRUE)
             ELSE Proceed(names)

\* Lines 538-564: with force unset, the version is left alone when every
\* requested representation name already exists on it.
RepublishExistingCheck(sg_version, delivery_types, representation_names, force) ==
    IF force THEN Proceed(representation_names)
    ELSE LET names == IF representation_names = <<>>
                      THEN get_representation_names(sg_version)
                      ELSE representation_names
             existing_rep_names ==
                 RepNames(get_representations(sg_version.sg_op_instance_id))
             missing_rep_names == ToSet(names) \ existing_rep_names
         IN  IF missing_rep_names = {}
             THEN Returned(ReportAppend(EmptyReport,
                                        AlreadyExistMsg(delivery_types),
                                        SubMsg(sg_version)), TRUE)
             ELSE Proceed(names)

\* republish_version's source checks with the placeholder "-" taken for a
\* cross reference (only the empty value is refused).
RepublishSourceCheck_NoPlaceholder(sg_version) ==
    LET op_version_id == sg_version.sg_op_instance_id IN
    IF op_version_id = ""
    THEN Returned(ReportAppend(EmptyReport, MissingIdMsg, SubMsg(sg_version)), FALSE)
    ELSE IF ~HasVersionDoc(op_version_id)
    THEN Returned(ReportAppend(EmptyReport, NoOpVersionMsg, SubMsg(sg_version)), FALSE)
    ELSE IF get_representation_by_name("exr", op_version_id) = <<>>
    THEN Returned(ReportAppend(EmptyReport, NoExrMsg, SubMsg(sg_version)), FALSE)
    ELSE Proceed(<<>>)

\* republish_version's source checks with the missing 'exr' representation
\* reported but not counted as a failure.
RepublishSourceCheck_ExrWarning(sg_version) ==
    LET op_version_id == sg_version.sg_op_instance_id IN
    IF op_version_id = "" \/ op_version_id = "-"
    THEN Returned(ReportAppend(EmptyReport, MissingIdMsg, SubMsg(sg_version)), FALSE)
    ELSE IF ~HasVersionDoc(op_version_id)
    THEN Returned(ReportAppend(EmptyReport, NoOpVersionMsg, SubMsg(sg_version)), FALSE)
    ELSE IF get_representation_by_name("exr", op_version_id) = <<>>
    THEN Returned(ReportAppend(EmptyReport, NoExrMsg, SubMsg(sg_version)), TRUE)
    ELSE Proceed(<<>>)

\* Lines 505-536: the version must have a cross reference, a version
\* document and an 'exr' representation.
RepublishSourceCheck(sg_version) ==
    LET op_version_id == sg_version.sg_op_instance_id IN
    IF op_version_id = "" \/ op_version_id = "-"
    THEN Returned(ReportAppend(EmptyReport, MissingIdMsg, SubMsg(sg_version)), FALSE)
    ELSE IF ~HasVersionDoc(op_version_id)
    THEN Returned(ReportAppend(EmptyReport, NoOpVersionMsg, SubMsg(sg_version)), FALSE)
    ELSE IF get_representation_by_name("exr", op_version_id) = <<>>
    THEN Returned(ReportAppend(EmptyReport, NoExrMsg, SubMsg(sg_version)), FALSE)
    ELSE Proceed(<<>>)

RepublishChecks(sg_version, delivery_types, representation_names, force) ==
    LET source == RepublishSourceCheck(sg_version) IN
    IF source.outcome = "return" THEN source
    ELSE RepublishExistingCheck(sg_version, delivery_types,
                                representation_names, force)

\* for delivery_type in delivery_types: families.append(f"client_{...}")
RECURSIVE ClientFamilies(_)
ClientFamilies(delivery_types) ==
    IF delivery_types = <<>> THEN <<>>
    ELSE <<"client_" \o Head(delivery_types)>> \o ClientFamilies(Tail(delivery_types))

\* Python's None, and the test "is None" (a value of any type may be asked).
None == [py |-> "None"]
IsNone(v) == ToString(v) = ToString(None)

\* dict with one more key (d[key] = value).
SetKey(d, key, value) ==
    [k \in DOMAIN d \cup {key} |-> IF k = key THEN value ELSE d[k]]

\* version_doc["data"].get("colorspace")
DocColorspace(version_doc) ==
    IF "colorspace" \in DOMAIN version_doc THEN version_doc.colorspace ELSE None

\* str(frame).zfill(width)
RECURSIVE ZeroPad(_, _)
ZeroPad(text, width) ==
    IF Len(text) >= width THEN text ELSE ZeroPad("0" \o text, width)

\* utils.expected_files(hashes_path, start, end): the path of every frame
\* of the range, the run of '#' replaced by the zero-padded frame number.
\* hashes_path is exr_path with the frame number replaced by '#'s (lines
\* 616-618), so the padding is the length of that frame number.
expected_files(exr_path, frame_start, frame_end) ==
    LET parts == FileNameParts[exr_path[Len(exr_path)]]
        padding == Len(parts.frame)
    IN  [ i \in 1..(frame_end - frame_start + 1) |->
            Join(Dirname(exr_path),
                 parts.head \o ZeroPad(ToString(frame_start + i - 1), padding)
                            \o parts.tail) ]

\* utils.get_representations(instance_data, exp_files, do_not_add_review):
\* one representation for the frame sequence, named after its extension.
utils_get_representations(instance_data, exp_files, do_not_add_review) ==
    << [ name |-> "exr",
         ext |-> "exr",
         files |-> [i \in DOMAIN exp_files |-> exp_files[i][Len(exp_files[i])]],
         frameStart |-> instance_data.frameStartHandle,
         frameEnd |-> instance_data.frameEndHandle,
         stagingDir |-> Dirname(exp_files[1]),
         fps |-> instance_data.fps,
         tags |-> IF do_not_add_review THEN <<>> ELSE <<"review">> ] >>

\* Lines 634-639: utils.set_representation_colorspace on every
\* representation, with instance_data["colorspace"] or "scene_linear".
set_representation_colorspace(rep, colorspace) ==
    SetKey(rep, "colorspaceData", [colorspace |-> colorspace])

\* Lines 615-645 and 970-1046: the representations of the expected files,
\* added to instance_data["representations"].
AddRepresentations(instance_data, exr_path, do_not_add_review) ==
    LET exp_files == expected_files(exr_path, instance_data.frameStartHandle,
                                    instance_data.frameEndHandle)
        representations == utils_get_representations(instance_data, exp_files,
                                                     do_not_add_review)
        source_colorspace == IF IsNone(instance_data.colorspace)
                             THEN "scene_linear" ELSE instance_data.colorspace
    IN  SetKey(instance_data, "representations",
               [ i \in DOMAIN representations |->
                   set_representation_colorspace(representations[i],
                                                 source_colorspace) ])

\* Lines 566-606: instance_data of republish_version, and the
\* representations lines 615-645 add to it.
RepublishInstance(sg_version, project_name, delivery_types) ==
    LET version_doc == OpVersionDocs[sg_version.sg_op_instance_id]
        exr_repre_doc == Head(get_representation_by_name(
                                  "exr", sg_version.sg_op_instance_id))
        render_path == Dirname(exr_repre_doc.path)
    IN  AddRepresentations(
        [ project |-> project_name,
          family |-> exr_repre_doc.family,
          subset |-> version_doc.subset,
          families |-> Append(version_doc.families, "review")
                          \o ClientFamilies(delivery_types),
          asset |-> exr_repre_doc.asset,
          task |-> exr_repre_doc.task,
          frameStart |-> version_doc.frameStart,
          frameEnd |-> version_doc.frameEnd,
          handleStart |-> version_doc.handleStart,
          handleEnd |-> version_doc.handleEnd,
          frameStartHandle |-> version_doc.frameStart - version_doc.handleStart,
          frameEndHandle |-> version_doc.frameEnd + version_doc.handleEnd,
          jobBatchName |-> "Republish - " \o sg_version.code \o " - "
                              \o ToString(version_doc.name),
          comment |-> version_doc.comment,
          fps |-> version_doc.fps,
          source |-> version_doc.source,
          overrideExistingFrame |-> FALSE,
          useSequenceForReview |-> TRUE,
          colorspace |-> DocColorspace(version_doc),
          version |-> version_doc.name,
          outputDir |-> render_path ],
        exr_repre_doc.path, FALSE)

\* Lines 608-613: the variables injected into the global session.
RepublishSession(instance_data) ==
    [ AVALON_ASSET |-> instance_data.asset,
      AVALON_TASK |-> instance_data.task,
      AVALON_WORKDIR |-> instance_data.outputDir,
      AVALON_PROJECT |-> instance_data.project,
      AVALON_APP |-> "traypublisher" ]

\* -------------------------------------- generate_delivery_media_version
\* Lines 846-875: as republish_version, the sub message of the missing
\* cross reference carrying the project name.
GenerateSourceCheck(sg_version, project_name) ==
    LET op_version_id == sg_version.sg_op_instance_id IN
    IF op_version_id = "" \/ op_version_id = "-"
    THEN Returned(ReportAppend(EmptyReport, MissingIdMsg,
                               ProjectSubMsg(project_name, sg_version)), FALSE)
    ELSE IF ~HasVersionDoc(op_version_id)
    THEN Returned(ReportAppend(EmptyReport, NoOpVersionMsg, SubMsg(sg_version)), FALSE)
    ELSE IF get_representation_by_name("exr", op_version_id) = <<>>
    THEN Returned(ReportAppend(EmptyReport, NoExrMsg, SubMsg(sg_version)), FALSE)
    ELSE Proceed(<<>>)

\* Lines 879-885: "delivery_<subset>" or "delivery_<subset>_<description>".
DeliverySubsetName(sg_version, description) ==
    LET name == "delivery_" \o OpVersionDocs[sg_version.sg_op_instance_id].subset
    IN  IF description # "" THEN name \o "_" \o description ELSE name

\* Lines 887-921: with force unset, nothing is generated when the last
\* version of the delivery subset has every requested representation.
GenerateExistingCheck(sg_version, delivery_types, representation_names, force, description) ==
    IF force THEN Proceed(representation_names)
    ELSE LET names == IF representation_names = <<>>
                      THEN get_representation_names(sg_version)
                      ELSE representation_names
             existing_rep_names ==
                 LastDeliveryRepNames(DeliverySubsetName(sg_version, description))
             missing_rep_names == ToSet(names) \ existing_rep_names
         IN  IF missing_rep_names = {}
             THEN Returned(ReportAppend(EmptyReport,
                                        AlreadyExistMsg(delivery_types),
                                        SubMsg(sg_version)), TRUE)
             ELSE Proceed(names)

GenerateChecks(sg_version, project_name, delivery_types, representation_names, force, description) ==
    LET source == GenerateSourceCheck(sg_version, project_name) IN
    IF source.outcome = "return" THEN source
    ELSE GenerateExistingCheck(sg_version, delivery_types,
                               representation_names, force, description)

\* context_tools.get_workdir_from_session: the work folder template filled
\* with the project, asset and task of the session.
get_workdir_from_session(session) ==
    << "proj", session.AVALON_PROJECT, session.AVALON_ASSET,
       "work", session.AVALON_TASK >>

\* The session variables with the work directory computed from the session
\* as it was before they were written.
GenerateSession_StaleWorkdir(session, project_name, asset, task) ==
    [session EXCEPT !.AVALON_ASSET = asset,
                    !.AVALON_TASK = task,
                    !.AVALON_PROJECT = project_name,
                    !.AVALON_APP = "traypublisher",
                    !.AVALON_WORKDIR =
                        Join(get_workdir_from_session(session), "temp_delivery")]

\* Lines 982-993: the session variables, then the work directory computed
\* from the session just written.
GenerateSession(session, project_name, asset, task) ==
    LET injected == [session EXCEPT !.AVALON_ASSET = asset,
                                    !.AVALON_TASK = task,
                                    !.AVALON_PROJECT = project_name,
                                    !.AVALON_APP = "traypublisher"]
    IN  [injected EXCEPT !.AVALON_WORKDIR =
            Join(get_workdir_from_session(injected), "temp_delivery")]

\* Lines 923-1046: instance_data of generate_delivery_media_version with
\* its representations.
GenerateInstance(sg_version, project_name, delivery_types, description, session) ==
    LET version_doc == OpVersionDocs[sg_version.sg_op_instance_id]
        exr_repre_doc == Head(get_representation_by_name(
                                  "exr", sg_version.sg_op_instance_id))
        delivery_subset_name == DeliverySubsetName(sg_version, description)
    IN  AddRepresentations(
        [ project |-> project_name,
          family |-> exr_repre_doc.family,
          subset |-> delivery_subset_name,
          families |-> ClientFamilies(delivery_types),
          asset |-> exr_repre_doc.asset,
          task |-> exr_repre_doc.task,
          frameStart |-> version_doc.frameStart,
          frameEnd |-> version_doc.frameEnd,
          handleStart |-> version_doc.handleStart,
          handleEnd |-> version_doc.handleEnd,
          frameStartHandle |-> version_doc.frameStart - version_doc.handleStart,
          frameEndHandle |-> version_doc.frameEnd + version_doc.handleEnd,
          jobBatchName |-> "Generate delivery media - " \o sg_version.code
                              \o " - " \o delivery_subset_name,
          comment |-> version_doc.comment,
          fps |-> version_doc.fps,
          source |-> version_doc.source,
          overrideExistingFrame |-> FALSE,
          useSequenceForReview |-> TRUE,
          colorspace |-> DocColorspace(version_doc),
          customData |-> [description |-> description],
          outputDir |-> GenerateSession(session, project_name,
                                        exr_repre_doc.asset,
                                        exr_repre_doc.task).AVALON_WORKDIR ],
        exr_repre_doc.path, TRUE)

\* utils.create_metadata_path(instance_data): "<subset>_metadata.json" in
\* the instance's output directory.
create_metadata_path(instance_data) ==
    Join(instance_data.outputDir, instance_data.subset \o "_metadata.json")

\* getpass.getuser()
User == "artist"

\* The publish job with the key deadline_publish_job_id set whatever the
\* farm answered.
PublishJob_KeepsEmptyJobId(instance_data, session, deadline_publish_job_id, deadline_url) ==
    SetKey([ asset |-> instance_data.asset,
             frameStart |-> instance_data.frameStartHandle,
             frameEnd |-> instance_data.frameEndHandle,
             fps |-> instance_data.fps,
             source |-> instance_data.source,
             user |-> User,
             version |-> None,
             intent |-> None,
             comment |-> instance_data.comment,
             job |-> [Props |-> [Batch |-> instance_data.jobBatchName,
                                 User |-> User]],
             session |-> session,
             instances |-> << SetKey(instance_data, "deadlineUrl", deadline_url) >> ],
           "deadline_publish_job_id", deadline_publish_job_id)

\* Lines 674-695 and 1077-1098: the publish job written to the manifest;
\* every instance gets the deadline url first.
PublishJob(instance_data, session, deadline_publish_job_id, deadline_url) ==
    LET publish_job ==
            [ asset |-> instance_data.asset,
              frameStart |-> instance_data.frameStartHandle,
              frameEnd |-> instance_data.frameEndHandle,
              fps |-> instance_data.fps,
              source |-> instance_data.source,
              user |-> User,
              version |-> None,
              intent |-> None,
              comment |-> instance_data.comment,
              job |-> [Props |-> [Batch |-> instance_data.jobBatchName,
                                  User |-> User]],
              session |-> session,
              instances |-> << SetKey(instance_data, "deadlineUrl", deadline_url) >> ]
    IN  IF deadline_publish_job_id # ""
        THEN SetKey(publish_job, "deadline_publish_job_id", deadline_publish_job_id)
        ELSE publish_job

\* ------------------------------------------------- json.dump / json.load
\* The values of a JSON document.
JsonNull == [type |-> "null"]
JsonBool(b) == [type |-> IF b THEN "true" ELSE "false"]
JsonNumber(n) == [type |-> "number", text |-> ToString(n)]
JsonString(text) == [type |-> "string", chars |-> text]
JsonArray(items) == [type |-> "array", items |-> items]
JsonObject(members) == [type |-> "object", members |-> members]

\* The keys of the publish job by the Python type of their value (the
\* encoder chooses the JSON value by that type).
JsonStringKeys ==
    { "asset", "source", "user", "comment", "Batch", "User", "project",
      "family", "subset", "task", "jobBatchName", "colorspace", "outputDir",
      "deadlineUrl", "description", "name", "ext", "stagingDir",
      "deadline_publish_job_id", "intent",
      "AVALON_ASSET", "AVALON_TASK", "AVALON_WORKDIR", "AVALON_PROJECT",
      "AVALON_APP" }
JsonNumberKeys ==
    { "frameStart", "frameEnd", "handleStart", "handleEnd", "frameStartHandle",
      "frameEndHandle", "fps", "version" }
JsonBoolKeys == { "overrideExistingFrame", "useSequenceForReview" }
JsonStringListKeys == { "families", "files", "tags" }
JsonObjectListKeys == { "instances", "representations" }

\* json.dump(publish_job, f, indent=4, sort_keys=True): the document of a
\* dictionary, None written as null, True/False as true/false, numbers as
\* decimal text, lists as arrays and dictionaries as objects.
RECURSIVE json_dump(_)
json_dump(obj) ==
    JsonObject(
      [ key \in DOMAIN obj |->
          LET value == obj[key] IN
          IF IsNone(value) THEN JsonNull
          ELSE IF key \in JsonStringKeys THEN JsonString(value)
          ELSE IF key \in JsonNumberKeys THEN JsonNumber(value)
          ELSE IF key \in JsonBoolKeys THEN JsonBool(value)
          ELSE IF key \in JsonStringListKeys
          THEN JsonArray([i \in DOMAIN value |-> JsonString(value[i])])
          ELSE IF key \in JsonObjectListKeys
          THEN JsonArray([i \in DOMAIN value |-> json_dump(value[i])])
          ELSE json_dump(value) ])

\* The numbers a manifest of the modelled world can hold, for reading
\* decimal text back.
JsonNumbers == (0..30) \cup (980..1030)

\* json.load: the Python value of a document.
RECURSIVE json_load(_)
json_load(node) ==
    CASE node.type = "object" ->
            [key \in DOMAIN node.members |-> json_load(node.members[key])]
      [] node.type = "array" ->
            [i \in DOMAIN node.items |-> json_load(node.items[i])]
      [] node.type = "string" -> node.chars
      [] node.type = "number" ->
            CHOOSE n \in JsonNumbers : ToString(n) = node.text
      [] node.type = "true" -> TRUE
      [] node.type = "false" -> FALSE
      [] node.type = "null" -> None

DeadlineUrl == "http://deadline:8082"

\* -------------------------------------------------------- deliver_version
\* Lines 200-207: the arguments of the hierarchy-override query.
OverridesQuery(representation_names) ==
    [ query_representation_names |-> representation_names # <<>>,
      query_delivery_names |-> TRUE ]

\* delivery.get_entity_hierarchy_overrides: what the hierarchy of the SG
\* Version holds of what was asked for.
get_entity_hierarchy_overrides(sg_version, query) ==
    [ names |-> IF query.query_representation_names
                THEN SGOverrideNames[sg_version.id]
                ELSE [names |-> <<>>, entity |-> "None"],
      Project |-> IF query.query_delivery_names THEN ProjectDeliveryName ELSE "",
      Shot |-> IF query.query_delivery_names THEN ShotDeliveryName ELSE "" ]

\* delivery.get_representation_names_from_overrides(overrides, types)
get_representation_names_from_overrides(delivery_overrides) ==
    delivery_overrides.names

\* Lines 208-237: the representation names to deliver and the report entry
\* that says where they come from.
DeliverNames(sg_version, representation_names, delivery_overrides) ==
    LET found == IF representation_names = <<>>
                 THEN get_representation_names_from_overrides(delivery_overrides)
                 ELSE [names |-> representation_names, entity |-> "None"]
        msg == IF found.names # <<>>
               THEN IF found.entity # "Project"
                    THEN "Override of outputs for '" \o sg_version.code
                           \o "' (id: " \o ToString(sg_version.id) \o ") at the "
                           \o found.entity \o " level"
                    ELSE "Project delivery representation names"
               ELSE "No representation names specified"
        value == IF found.names # <<>> THEN found.names
                 ELSE <<"All representations will be delivered.">>
    IN  [ names |-> found.names,
          report |-> ReportSet(EmptyReport, msg, value) ]

\* Line 240: representation_names.append["thumbnail"] subscripts the bound
\* method instead of calling it: Python raises TypeError and appends nothing.
AppendThumbnail(representation_names) ==
    [ raised |-> TRUE, names |-> representation_names ]

\* Lines 243-249: get_representations(project, representation_names=...,
\* version_ids=[op_version_id])
RepresentationsToDeliver(op_version_id, representation_names) ==
    SelectSeq(get_representations(op_version_id),
              LAMBDA r : r.name \in ToSet(representation_names))

\* Lines 264-301: the template string or the template key of a
\* representation.
DeliveryTemplate(repre, delivery_templates) ==
    LET template_name == (IF repre.version = 0 THEN "V0 " ELSE "")
                            \o (IF repre.frame # "" THEN "Sequence"
                                ELSE "Single File")
    IN  IF delivery_templates # "None"
        THEN [ delivery_template |->
                   IF TemplateEntries[template_name] # ""
                   THEN "/proj/" \o ProjectCode \o "/io/out/"
                           \o TemplateEntries[template_name]
                   ELSE TemplateEntries[template_name],
               delivery_template_name |-> "None" ]
        ELSE [ delivery_template |-> "None",
               delivery_template_name |->
                   IF repre.frame # "" THEN "sequence" ELSE "single_file" ]

\* Lines 308-332: the report entries of the name overrides.
NameOverrides(repre, delivery_overrides, report) ==
    LET with_project ==
            IF delivery_overrides.Project # ""
            THEN ReportAppend(report, "Project name overridden",
                              "prj -> " \o delivery_overrides.Project)
            ELSE report
    IN  IF delivery_overrides.Shot # ""
        THEN ReportAppend(with_project, "Shot name overridden",
                          repre.asset \o " -> " \o delivery_overrides.Shot)
        ELSE with_project

\* check_destination_path: the report of a destination that cannot be used.
check_destination_path(repre) ==
    IF repre.path \in DestinationCollisions
    THEN ReportAppend(EmptyReport, "Destination path collision", repre.name)
    ELSE EmptyReport

\* Lines 257-347: the template choice handed to check_destination_path for
\* each representation the loop comes to; the loop ends at the first
\* refused destination.
RECURSIVE TemplatesPassed(_, _)
TemplatesPassed(repres, delivery_templates) ==
    IF repres = <<>> THEN <<>>
    ELSE << DeliveryTemplate(Head(repres), delivery_templates) >>
         \o (IF DOMAIN check_destination_path(Head(repres)) # {} THEN <<>>
             ELSE TemplatesPassed(Tail(repres), delivery_templates))

\* deliver_single_file: the report of a file that could not be delivered.
deliver_single_file(src_path) ==
    IF src_path \in FailingFiles
    THEN ReportAppend(EmptyReport, "Source file was not found", src_path)
    ELSE EmptyReport

\* Lines 368-380: every file of a representation, one after the other.
RECURSIVE DeliverFiles(_, _, _)
DeliverFiles(repre, files, report) ==
    IF files = <<>> THEN report
    ELSE LET new_report_items == deliver_single_file(Head(files))
             with_success ==
                 IF DOMAIN new_report_items = {}
                 THEN ReportAppend(report, SuccessMsg, repre.name)
                 ELSE report
         IN  DeliverFiles(repre, Tail(files),
                          DictUpdate(with_success, new_report_items))

\* Lines 257-382: the loop over the representations.  A refused
\* destination returns that representation's report alone (lines 346-347);
\* the end of the loop returns True (line 382).
RECURSIVE DeliverRepresentations(_, _, _)
DeliverRepresentations(repres, delivery_overrides, report) ==
    IF repres = <<>> THEN Returned(report, TRUE)
    ELSE LET repre == Head(repres)
             named == NameOverrides(repre, delivery_overrides, report)
             repre_report_items == check_destination_path(repre)
         IN  IF DOMAIN repre_report_items # {}
             THEN Returned(repre_report_items, FALSE)
             ELSE DeliverRepresentations(
                      Tail(repres), delivery_overrides,
                      DeliverFiles(repre, repre.files, named))

\* deliver_version, lines 182-382.  outcome is "return" with the report
\* and the success flag, or "raise" when an exception leaves the function.
DeliverVersion(sg_version, representation_names, delivery_templates) ==
    LET op_version_id == sg_version.sg_op_instance_id
        query == OverridesQuery(representation_names)
        delivery_overrides == get_entity_hierarchy_overrides(sg_version, query)
        named == DeliverNames(sg_version, representation_names, delivery_overrides)
        thumbnail == AppendThumbnail(named.names)
        repres_to_deliver == RepresentationsToDeliver(op_version_id, thumbnail.names)
        NoQuery == [query_representation_names |-> FALSE,
                    query_delivery_names |-> FALSE]
    IN  IF op_version_id = "" \/ op_version_id = "-"
        THEN [ outcome |-> "return", success |-> FALSE, queried |-> FALSE,
               query |-> NoQuery, looked_up |-> FALSE, lookup_names |-> <<>>,
               templates |-> <<>>,
               report |-> ReportAppend(EmptyReport, MissingIdMsg, SubMsg(sg_version)) ]
        ELSE IF thumbnail.raised
        THEN [ outcome |-> "raise", success |-> FALSE, queried |-> TRUE,
               query |-> query, looked_up |-> FALSE, lookup_names |-> <<>>,
               templates |-> <<>>,
               report |-> named.report ]
        ELSE IF repres_to_deliver = <<>>
        THEN [ outcome |-> "return", success |-> FALSE, queried |-> TRUE,
               query |-> query, looked_up |-> TRUE, lookup_names |-> thumbnail.names,
               templates |-> <<>>,
               report |-> ReportAppend(named.report, NoRepresentationsMsg,
                                       SubMsg(sg_version)) ]
        ELSE LET done == DeliverRepresentations(repres_to_deliver,
                                                delivery_overrides, named.report)
             IN  [ outcome |-> "return", success |-> done.success, queried |-> TRUE,
                   query |-> query, looked_up |-> TRUE,
                   lookup_names |-> thumbnail.names,
                   templates |-> TemplatesPassed(repres_to_deliver,
                                                 delivery_templates),
                   report |-> done.report ]

\* =============================== ExtractOIIOTranscode (colorspace transcode)
\* File names are sequences of characters, so that patterns, extensions
\* and formatting are computed on the text.
DigitChars == << "0", "1", "2", "3", "4", "5", "6", "7", "8", "9" >>
IsDigit(c) == \E d \in DOMAIN DigitChars : DigitChars[d] = c

\* int(index)
RECURSIVE StrToInt(_)
StrToInt(digits) ==
    IF digits = <<>> THEN 0
    ELSE StrToInt(SubSeq(digits, 1, Len(digits) - 1)) * 10
         + (CHOOSE d \in 0..9 : DigitChars[d + 1] = digits[Len(digits)])

\* "{}".format(frame) of a non-negative int
RECURSIVE IntToStr(_)
IntToStr(n) ==
    IF n < 10 THEN << DigitChars[n + 1] >>
    ELSE IntToStr(n \div 10) \o << DigitChars[(n % 10) + 1] >>

\* clique.PATTERNS["frames"] is \.(?P<index>(?P<padding>0*)\d+)\.\D+\d?$ :
\* a dot, the digits of the index, a dot, then non-digits and at most one
\* digit up to the end of the name.  FramesTail says the text from
\* position m on matches \D+\d?$.
FramesTail(item, m) ==
    /\ m <= Len(item)
    /\ \A k \in m..(Len(item) - 1) : ~IsDigit(item[k])
    /\ (m = Len(item) => ~IsDigit(item[m]))

\* The positions <<i, j>> at which the pattern matches: item[i] is the
\* first dot and item[i+1..j] the index.
FramesMatches(item) ==
    { ij \in (1..Len(item)) \X (1..Len(item)) :
        /\ item[ij[1]] = "."
        /\ ij[1] < ij[2]
        /\ \A k \in (ij[1] + 1)..ij[2] : IsDigit(item[k])
        /\ ij[2] + 1 <= Len(item)
        /\ item[ij[2] + 1] = "."
        /\ FramesTail(item, ij[2] + 2) }

\* pattern.finditer(item): the leftmost match (the pattern ends at the end
\* of the name, so there is no second one), as clique.assemble reads it:
\* index, head = item[:start], tail = item[end:], and the padding, which is
\* the width of the index when it has leading zeros and 0 otherwise.
FramesMatch(item) ==
    LET found == FramesMatches(item) IN
    IF found = {} THEN <<>>
    ELSE LET ij == CHOOSE m \in found : \A o \in found : m[1] <= o[1]
             index == SubSeq(item, ij[1] + 1, ij[2])
         IN  << [ index |-> StrToInt(index),
                  head |-> SubSeq(item, 1, ij[1]),
                  tail |-> SubSeq(item, ij[2] + 1, Len(item)),
                  padding |-> IF Len(index) > 1 /\ index[1] = "0"
                              THEN Len(index) ELSE 0 ] >>

\* clique.assemble(files, patterns=[frames], assume_padded_when_ambiguous=
\* True), minimum_items at its default of 2: the collections (head, tail,
\* padding, indexes).  The remainder is not modelled, the caller drops it.
CliqueMinimumItems == 2

CliqueCollectionMap(files) ==
    LET matched == { FramesMatch(files[i])[1] :
                       i \in { k \in DOMAIN files : FramesMatch(files[k]) # <<>> } }
        keys == { [head |-> m.head, tail |-> m.tail, padding |-> m.padding] :
                    m \in matched }
    IN  { [ head |-> key.head, tail |-> key.tail, padding |-> key.padding,
            indexes |-> { m.index : m \in { x \in matched :
                             /\ x.head = key.head /\ x.tail = key.tail
                             /\ x.padding = key.padding } } ] : key \in keys }

\* Unpadded collections are merged into the padded ones of the same head
\* and tail where the width of the index equals the padding; an unpadded
\* collection merged as a whole is dropped.
CliqueMerged(collections) ==
    LET candidates == { c \in collections : c.padding = 0 }
        fits(padded, candidate) ==
            /\ candidate.head = padded.head /\ candidate.tail = padded.tail
        taken(padded, candidate) ==
            { i \in candidate.indexes : Len(IntToStr(i)) = padded.padding }
        padded_merged ==
            { [ c EXCEPT !.indexes = @ \cup UNION { taken(c, cand) :
                    cand \in { x \in candidates : fits(c, x) } } ] :
              c \in { x \in collections : x.padding # 0 } }
        fully_merged ==
            { cand \in candidates :
                \E c \in collections :
                    /\ c.padding # 0 /\ fits(c, cand)
                    /\ taken(c, cand) = cand.indexes }
    IN  padded_merged \cup (candidates \ fully_merged)

clique_assemble(files) ==
    LET filtered == { c \in CliqueMerged(CliqueCollectionMap(files)) :
                        Cardinality(c.indexes) >= CliqueMinimumItems }
        lowest(c) == CHOOSE i \in c.indexes : \A o \in c.indexes : i <= o
        highest(c) == CHOOSE i \in c.indexes : \A o \in c.indexes : i >= o
    IN  { IF c.padding = 0
             /\ Len(IntToStr(lowest(c))) = Len(IntToStr(highest(c)))
          THEN [c EXCEPT !.padding = Len(IntToStr(lowest(c)))]
          ELSE c : c \in filtered }

\* _translate_to_sequence leaving the list as it is when the names make
\* more than one collection.
_translate_to_sequence_Lenient(files_to_convert) ==
    LET collections == clique_assemble(files_to_convert) IN
    IF collections = {} \/ Cardinality(collections) > 1
    THEN [ outcome |-> "return", files |-> files_to_convert ]
    ELSE LET collection == CHOOSE c \in collections : TRUE
             first == CHOOSE i \in collection.indexes :
                          \A o \in collection.indexes : i <= o
             last_index == CHOOSE i \in collection.indexes :
                          \A o \in collection.indexes : i >= o
         IN  [ outcome |-> "return",
               files |-> << collection.head \o IntToStr(first) \o <<"-">>
                            \o IntToStr(last_index) \o <<"#">>
                            \o collection.tail >> ]

\* _translate_to_sequence with the frame run written without the head's
\* trailing dot.
_translate_to_sequence_DotDropped(files_to_convert) ==
    LET collections == clique_assemble(files_to_convert) IN
    IF collections = {}
    THEN [ outcome |-> "return", files |-> files_to_convert ]
    ELSE IF Cardinality(collections) > 1
    THEN [ outcome |-> "raise", error |-> "ValueError" ]
    ELSE LET collection == CHOOSE c \in collections : TRUE
             first == CHOOSE i \in collection.indexes :
                          \A o \in collection.indexes : i <= o
             last_index == CHOOSE i \in collection.indexes :
                          \A o \in collection.indexes : i >= o
         IN  [ outcome |-> "return",
               files |-> << SubSeq(collection.head, 1, Len(collection.head) - 1)
                            \o IntToStr(first) \o <<"-">> \o IntToStr(last_index)
                            \o <<"#">> \o collection.tail >> ]

\* Lines 391-422: _translate_to_sequence.  More than one collection is a
\* ValueError; one collection becomes the single name
\* head + "<first>-<last>#" + tail; none leaves the list as it is.
_translate_to_sequence(files_to_convert) ==
    LET collections == clique_assemble(files_to_convert) IN
    IF collections = {}
    THEN [ outcome |-> "return", files |-> files_to_convert ]
    ELSE IF Cardinality(collections) > 1
    THEN [ outcome |-> "raise", error |-> "ValueError" ]
    ELSE LET collection == CHOOSE c \in collections : TRUE
             first == CHOOSE i \in collection.indexes :
                          \A o \in collection.indexes : i <= o
             last_index == CHOOSE i \in collection.indexes :
                          \A o \in collection.indexes : i >= o
         IN  [ outcome |-> "return",
               files |-> << collection.head \o IntToStr(first) \o <<"-">>
                            \o IntToStr(last_index) \o <<"#">>
                            \o collection.tail >> ]

\* Extensions and file names of the modelled publishes, as characters.
EXR == << "e", "x", "r" >>
JPG == << "j", "p", "g" >>
PNG == << "p", "n", "g" >>
MOV == << "m", "o", "v" >>
DotJPG == << ".", "j", "p", "g" >>

\* Line 79: supported_exts = ["exr", "jpg", "jpeg", "png", "dpx"]
supported_exts ==
    { EXR, JPG, << "j", "p", "e", "g" >>, PNG, << "d", "p", "x" >> }

\* Lines 65-74: profile_output_skeleton, the class attribute every SG
\* output definition is copied from.
ProfileOutputSkeleton ==
    [ extension |-> <<>>,
      transcoding_type |-> "colorspace",
      colorspace |-> "",
      display |-> "",
      view |-> "",
      oiiotool_args |-> [additional_command_args |-> <<>>],
      tags |-> <<>>,
      custom_tags |-> <<>> ]

\* A dict in insertion order: a sequence of [name, value] with distinct
\* names.
DictKeys(d) == { d[i].name : i \in DOMAIN d }
DictGet(d, name) == d[CHOOSE i \in DOMAIN d : d[i].name = name].value
DictSet(d, name, value) ==
    IF name \in DictKeys(d)
    THEN [ i \in DOMAIN d |-> IF d[i].name = name
                               THEN [name |-> name, value |-> value] ELSE d[i] ]
    ELSE Append(d, [name |-> name, value |-> value])
DictPop(d, name) == SelectSeq(d, LAMBDA entry : entry.name # name)

\* dict.update(other)
RECURSIVE OutputsUpdate(_, _)
OutputsUpdate(d, other) ==
    IF other = <<>> THEN d
    ELSE OutputsUpdate(DictSet(d, Head(other).name, Head(other).value), Tail(other))

\* k.endswith(delivery_type), for the output names of the modelled world:
\* the name is one of their prefixes followed by the delivery type.
OutputNamePrefixes == { "", "exr_", "jpg_", "mov_" }
EndsWith(k, delivery_type) == \E p \in OutputNamePrefixes : p \o delivery_type = k

\* "not delivery_overrides_dict": None or an empty dict.
NoOverrides(delivery_overrides_dict) ==
    IsNone(delivery_overrides_dict) \/ DOMAIN delivery_overrides_dict = {}

\* ent_overrides[f"sg_{delivery_type}_output_type"] and
\* [tag["name"] for tag in ent_overrides[f"sg_{delivery_type}_tags"]]
EntOutputs(ent_overrides, delivery_type) ==
    IF delivery_type = "review" THEN ent_overrides.sg_review_output_type
    ELSE ent_overrides.sg_final_output_type
EntTags(ent_overrides, delivery_type) ==
    LET tags == IF delivery_type = "review" THEN ent_overrides.sg_review_tags
                ELSE ent_overrides.sg_final_tags
    IN  [ i \in DOMAIN tags |-> tags[i].name ]

\* Lines 322-332 with the skeleton used as it is instead of a copy of it:
\* every output definition is the one shared object, which takes the writes.
AssignOutput_SharedSkeleton(state, out_name, extension, tags, dest_colorspace) ==
    LET written == [ state.skeleton EXCEPT !.extension = extension,
                                           !.tags = tags,
                                           !.colorspace = dest_colorspace ]
        named == DictSet(state.sg_profiles, out_name, written)
    IN  [ state EXCEPT
            !.sg_profiles = [ i \in DOMAIN named |->
                                [name |-> named[i].name, value |-> written] ],
            !.skeleton = written ]

\* Lines 322-332: sg_profiles[out_name] is a copy of the skeleton with
\* extension, tags and colorspace set; the skeleton itself is not written.
AssignOutput(state, out_name, extension, tags, dest_colorspace) ==
    [ state EXCEPT
        !.sg_profiles =
            DictSet(@, out_name,
                    [ state.skeleton EXCEPT !.extension = extension,
                                            !.tags = tags,
                                            !.colorspace = dest_colorspace ]) ]

\* Lines 313-332: the outputs of one delivery type at one level; those
\* whose extension is not supported are skipped.
RECURSIVE SgOutputsLoop(_, _, _, _)
SgOutputsLoop(state, ent_overrides, delivery_type, delivery_outputs) ==
    IF delivery_outputs = <<>> THEN state
    ELSE LET out_name == Head(delivery_outputs).name
             out_fields == Head(delivery_outputs).value
             dest_colorspace == IF delivery_type = "review" /\ state.lut_colorspace_review
                                THEN "input_process" ELSE "delivery_frame"
             next == IF out_fields.sg_extension \notin supported_exts THEN state
                     ELSE AssignOutput(state, out_name, out_fields.sg_extension,
                                       EntTags(ent_overrides, delivery_type),
                                       dest_colorspace)
         IN  SgOutputsLoop(next, ent_overrides, delivery_type, Tail(delivery_outputs))

\* Lines 303-311: below the project level, outputs of a delivery type clear
\* the entries gathered so far whose name ends with that delivery type.
SgClearParent(sg_profiles, hierarchy_level, delivery_type, delivery_outputs) ==
    IF hierarchy_level > 0 /\ delivery_outputs # <<>>
    THEN SelectSeq(sg_profiles, LAMBDA entry : ~EndsWith(entry.name, delivery_type))
    ELSE sg_profiles

\* Lines 296-332: for delivery_type in ["review", "final"] at one level.
RECURSIVE SgTypesLoop(_, _, _, _)
SgTypesLoop(state, ent_overrides, hierarchy_level, delivery_types) ==
    IF delivery_types = <<>> THEN state
    ELSE LET delivery_type == Head(delivery_types)
             delivery_outputs == EntOutputs(ent_overrides, delivery_type)
             cleared == [ state EXCEPT !.sg_profiles =
                            SgClearParent(@, hierarchy_level, delivery_type,
                                          delivery_outputs) ]
         IN  SgTypesLoop(SgOutputsLoop(cleared, ent_overrides, delivery_type,
                                       delivery_outputs),
                         ent_overrides, hierarchy_level, Tail(delivery_types))

\* Lines 290-332: for hierarchy_level, override_entity in
\* enumerate(["project", "shot"]); lut_colorspace_review is the level's
\* sg_review_lut.
RECURSIVE SgLevelsLoop(_, _, _)
SgLevelsLoop(state, delivery_overrides_dict, hierarchy_level) ==
    IF hierarchy_level > 1 THEN state
    ELSE LET ent_overrides == IF hierarchy_level = 0
                              THEN delivery_overrides_dict.project
                              ELSE delivery_overrides_dict.shot
             entered == [ state EXCEPT
                            !.lut_colorspace_review = ent_overrides.sg_review_lut ]
         IN  SgLevelsLoop(SgTypesLoop(entered, ent_overrides, hierarchy_level,
                                      << "review", "final" >>),
                          delivery_overrides_dict, hierarchy_level + 1)

\* Lines 262-334: get_sg_output_profiles.  Without overrides it returns
\* None; otherwise the pair (sg_profiles, lut_colorspace_review).  The
\* overrides dictionary and the skeleton are given back as the call leaves
\* them.
get_sg_output_profiles(delivery_overrides_dict, skeleton) ==
    IF NoOverrides(delivery_overrides_dict)
    THEN [ returned |-> "None", sg_profiles |-> <<>>,
           lut_colorspace_review |-> FALSE,
           delivery_overrides_dict |-> delivery_overrides_dict,
           skeleton |-> skeleton ]
    ELSE LET done == SgLevelsLoop([ sg_profiles |-> <<>>,
                                    lut_colorspace_review |-> FALSE,
                                    skeleton |-> skeleton ],
                                  delivery_overrides_dict, 0)
         IN  [ returned |-> "tuple", sg_profiles |-> done.sg_profiles,
               lut_colorspace_review |-> done.lut_colorspace_review,
               delivery_overrides_dict |-> delivery_overrides_dict,
               skeleton |-> done.skeleton ]

\* os.path.splitext on a file name: the extension starts at the last dot,
\* unless only dots precede it.
Splitext(file_name) ==
    LET dots == { i \in DOMAIN file_name :
                    /\ file_name[i] = "."
                    /\ \E k \in 1..(i - 1) : file_name[k] # "." }
    IN  IF dots = {} THEN [ root |-> file_name, ext |-> <<>> ]
        ELSE LET i == CHOOSE d \in dots : \A o \in dots : d >= o
             IN  [ root |-> SubSeq(file_name, 1, i - 1),
                   ext |-> SubSeq(file_name, i, Len(file_name)) ]

\* '{}.{}'.format(file_name, output_extension)
WithExtension(root, output_extension) == root \o <<".">> \o output_extension

\* output_extension.replace('.', '')
WithoutDots(extension) == SelectSeq(extension, LAMBDA c : c # ".")

\* The value of repre["files"]: a list of file names, or one file name (a
\* str) when the representation is a single file.
FileList(names) == [ list |-> TRUE, names |-> names ]
FileStr(file_name) == [ list |-> FALSE, names |-> << file_name >> ]

\* Lines 151-154: files_to_convert is a copy of the list, or the list of
\* the one file name.
FilesToConvert(files) == files.names

\* Iterating new_repre["files"] (line 214): the names of a list, the
\* characters of a str.
IterFiles(files) ==
    IF files.list THEN files.names
    ELSE [ i \in DOMAIN files.names[1] |-> << files.names[1][i] >> ]

\* len(new_repre["files"])
LenFiles(files) == Len(IterFiles(files))

\* Lines 364-389: _rename_in_representation.
_rename_in_representation(new_repre, files_to_convert, output_name, output_extension) ==
    LET named == IF output_name # "passthrough"
                 THEN [new_repre EXCEPT !.name = output_name] ELSE new_repre
    IN  IF output_extension = <<>> THEN named
        ELSE [ named EXCEPT
                 !.ext = output_extension,
                 !.files = FileList([ i \in DOMAIN files_to_convert |->
                              WithExtension(Splitext(files_to_convert[i]).root,
                                            output_extension) ]) ]

\* Lines 424-433: _get_output_file_path.
_get_output_file_path(input_path, output_dir, output_extension) ==
    LET split == Splitext(input_path.name)
        extension == IF output_extension = <<>> THEN WithoutDots(split.ext)
                     ELSE output_extension
    IN  [ dir |-> output_dir, name |-> WithExtension(split.root, extension) ]

\* Lines 463-490: _repre_is_valid.
_repre_is_valid(repre) ==
    /\ "ext" \in DOMAIN repre
    /\ repre.ext \in supported_exts
    /\ "files" \in DOMAIN repre
    /\ LenFiles(repre.files) > 0
    /\ "colorspaceData" \in DOMAIN repre

\* Lines 137-142: the config file of the colorspace data must exist.
ExistingConfigs == { "aces.ocio" }
ConfigExists(colorspace_data) ==
    /\ "config" \in DOMAIN colorspace_data
    /\ colorspace_data.config.path # ""
    /\ colorspace_data.config.path \in ExistingConfigs

\* "if value:" for a str or None.
Truthy(value) == ~IsNone(value) /\ value # ""

\* Lines 163-182: the target colorspace, view and display, and the
\* colorspace data of the new representation.
TranscodeTarget(output_def, colorspace_data) ==
    IF output_def.transcoding_type = "colorspace"
    THEN [ target_colorspace |->
               IF output_def.colorspace # "" THEN output_def.colorspace
               ELSE colorspace_data.colorspace,
           view |-> None, display |-> None ]
    ELSE [ target_colorspace |-> None,
           view |-> IF output_def.view # "" THEN output_def.view
                    ELSE IF "view" \in DOMAIN colorspace_data
                    THEN colorspace_data.view ELSE None,
           display |-> IF output_def.display # "" THEN output_def.display
                       ELSE IF "display" \in DOMAIN colorspace_data
                       THEN colorspace_data.display ELSE None ]

NewColorspaceData(colorspace_data, target) ==
    LET with_view == IF Truthy(target.view)
                     THEN SetKey(colorspace_data, "view", target.view)
                     ELSE colorspace_data
        with_display == IF Truthy(target.display)
                        THEN SetKey(with_view, "display", target.display)
                        ELSE with_view
    IN  IF Truthy(target.target_colorspace)
        THEN SetKey(with_display, "colorspace", target.target_colorspace)
        ELSE with_display

\* A value computed once and then used under a name: Op(value).
Bind(value, Op(_)) == Op(value)

\* list.remove(value): the first occurrence.
ListRemove(l, value) ==
    LET at == { i \in DOMAIN l : l[i] = value } IN
    IF at = {} THEN l
    ELSE LET i == CHOOSE a \in at : \A o \in at : a <= o
         IN  SubSeq(l, 1, i - 1) \o SubSeq(l, i + 1, Len(l))

\* Lines 235-237: for tag in output_def["tags"]: append when not there.
RECURSIVE AddTags(_, _)
AddTags(tags, output_tags) ==
    IF output_tags = <<>> THEN tags
    ELSE AddTags(IF Head(output_tags) \in ToSet(tags) THEN tags
                 ELSE Append(tags, Head(output_tags)),
                 Tail(output_tags))

\* Lines 228-237: the tags of the new representation: those copied from the
\* source without (the first) 'shotgridreview', then the tags of the output
\* definition that are not among them.
NewRepreTags(new_repre, output_def) ==
    LET tags == IF "tags" \in DOMAIN new_repre THEN new_repre.tags ELSE <<>>
        stripped == IF "shotgridreview" \in ToSet(tags)
                    THEN ListRemove(tags, "shotgridreview") ELSE tags
    IN  AddTags(stripped, output_def.tags)

\* get_transcode_temp_directory()
TranscodeTempDir == "transcode_tmp"

\* Lines 145-248: one output definition applied to one representation:
\* the new representation, the conversions invoked and the cleanup paths,
\* or the exception of _translate_to_sequence.
TranscodeOutput(repre, output_name, output_def) ==
    LET colorspace_data == repre.colorspaceData
        original_staging_dir == repre.stagingDir
        files_to_convert == FilesToConvert(repre.files)
        output_extension == WithoutDots(output_def.extension)
        target == TranscodeTarget(output_def, colorspace_data)
    IN  Bind(_translate_to_sequence(files_to_convert), LAMBDA translated :
        IF translated.outcome = "raise"
        THEN [ outcome |-> "raise", error |-> translated.error ]
        ELSE
        Bind([ _rename_in_representation(
                   [repre EXCEPT !.stagingDir = TranscodeTempDir],
                   files_to_convert, output_name, output_extension)
                 EXCEPT !.colorspaceData = NewColorspaceData(colorspace_data, target) ],
             LAMBDA recolored :
        Bind(IF output_def.custom_tags # <<>>
             THEN SetKey(recolored, "custom_tags",
                         (IF "custom_tags" \in DOMAIN recolored
                          THEN recolored.custom_tags ELSE <<>>)
                         \o output_def.custom_tags)
             ELSE recolored,
             LAMBDA custom :
        Bind(SetKey(custom, "tags", NewRepreTags(custom, output_def)),
             LAMBDA tagged :
             [ outcome |-> "return",
               new_repre |-> IF LenFiles(tagged.files) = 1
                             THEN [ tagged EXCEPT !.files =
                                      FileStr(IterFiles(tagged.files)[1]) ]
                             ELSE tagged,
               conversions |->
                   [ i \in DOMAIN translated.files |->
                       [ input_path |-> [ dir |-> original_staging_dir,
                                          name |-> translated.files[i] ],
                         output_path |-> _get_output_file_path(
                                             [ dir |-> original_staging_dir,
                                               name |-> translated.files[i] ],
                                             TranscodeTempDir, output_extension),
                         config_path |-> colorspace_data.config.path,
                         source_colorspace |-> colorspace_data.colorspace,
                         target_colorspace |-> target.target_colorspace,
                         view |-> target.view,
                         display |-> target.display ] ],
               cleanup |-> [ i \in DOMAIN IterFiles(recolored.files) |->
                               [ dir |-> TranscodeTempDir,
                                 name |-> IterFiles(recolored.files)[i] ] ],
               added_review |-> "review" \in ToSet(output_def.tags) ]))))

\* Lines 492-503: _mark_original_repre_for_deletion: the original gets
\* the tag 'delete' when the profile says delete_original.
_mark_original_repre_for_deletion(repre, delete_original, added_review) ==
    LET tags == IF "tags" \in DOMAIN repre THEN repre.tags ELSE <<>>
    IN  SetKey(repre, "tags",
               IF delete_original /\ "delete" \notin ToSet(tags)
               THEN Append(tags, "delete") ELSE tags)

\* Lines 144-248: for output_name, output_def in profile["outputs"].items()
\* on one valid representation.  acc gathers the new representations, the
\* conversions and the cleanup paths; an exception ends the loop.
RECURSIVE OutputsLoop(_, _, _)
OutputsLoop(acc, repre, outputs) ==
    IF outputs = <<>> \/ acc.outcome = "raise" THEN acc
    ELSE Bind(TranscodeOutput(repre, Head(outputs).name, Head(outputs).value),
              LAMBDA done :
              IF done.outcome = "raise"
              THEN [ acc EXCEPT !.outcome = "raise", !.error = done.error ]
              ELSE OutputsLoop(
                     [ acc EXCEPT
                         !.new_representations = Append(@, done.new_repre),
                         !.conversions = @ \o done.conversions,
                         !.cleanup = @ \o done.cleanup,
                         !.added_representations = TRUE,
                         !.added_review = @ \/ done.added_review ],
                     repre, Tail(outputs)))

\* Lines 129-252: for idx, repre in enumerate(list(repres)).  A
\* representation that is not valid or whose config file does not exist is
\* skipped; one that got new representations is marked.
RECURSIVE RepresLoop(_, _, _, _)
RepresLoop(acc, idx, outputs, delete_original) ==
    IF idx > Len(acc.representations) \/ acc.outcome = "raise" THEN acc
    ELSE LET repre == acc.representations[idx] IN
         IF ~_repre_is_valid(repre) \/ ~ConfigExists(repre.colorspaceData)
         THEN RepresLoop(acc, idx + 1, outputs, delete_original)
         ELSE Bind(OutputsLoop([ acc EXCEPT !.added_representations = FALSE,
                                            !.added_review = FALSE ],
                               repre, outputs),
                   LAMBDA done :
                   IF done.outcome = "raise" THEN done
                   ELSE RepresLoop(
                          IF done.added_representations
                          THEN [ done EXCEPT !.representations[idx] =
                                   _mark_original_repre_for_deletion(
                                       repre, delete_original, done.added_review) ]
                          ELSE done,
                          idx + 1, outputs, delete_original))

\* Lines 254-259: representations tagged 'delete' and not 'thumbnail' are
\* removed from the instance, then the new ones are added.
RemoveDeleted(representations) ==
    SelectSeq(representations,
              LAMBDA repre :
                  LET tags == IF "tags" \in DOMAIN repre THEN repre.tags ELSE <<>>
                  IN  ~("delete" \in ToSet(tags) /\ "thumbnail" \notin ToSet(tags)))

\* What process() leaves when it returns before the loop or raises there.
ProcessEnds(outcome, error, instance, outputs, skeleton) ==
    [ outcome |-> outcome, error |-> error, instance |-> instance,
      outputs |-> outputs, new_representations |-> <<>>, conversions |-> <<>>,
      cleanup |-> <<>>, skeleton |-> skeleton ]

\* Lines 104-122: the outputs of the profile after the Shotgrid outputs
\* were merged in, the review colorspace was overridden and the outputs of
\* the delivery types the instance is not of were popped; a key that is
\* not there is a KeyError.
ProfileOutputs(outputs, sg, families) ==
    LET merged == IF sg.sg_profiles # <<>>
                  THEN OutputsUpdate(outputs, sg.sg_profiles) ELSE outputs
    IN  IF ~sg.lut_colorspace_review /\ "review" \notin DictKeys(merged)
        THEN [ outcome |-> "raise", error |-> "KeyError", outputs |-> merged ]
        ELSE LET overridden ==
                     IF ~sg.lut_colorspace_review
                     THEN DictSet(merged, "review",
                                  [ DictGet(merged, "review") EXCEPT
                                      !.colorspace = "delivery_frame" ])
                     ELSE merged
             IN  IF "client_review" \notin ToSet(families)
                    /\ "review" \notin DictKeys(overridden)
                 THEN [ outcome |-> "raise", error |-> "KeyError",
                        outputs |-> overridden ]
                 ELSE LET no_review == IF "client_review" \notin ToSet(families)
                                       THEN DictPop(overridden, "review")
                                       ELSE overridden
                      IN  IF "client_final" \notin ToSet(families)
                             /\ "final" \notin DictKeys(no_review)
                          THEN [ outcome |-> "raise", error |-> "KeyError",
                                 outputs |-> no_review ]
                          ELSE [ outcome |-> "proceed", error |-> "",
                                 outputs |-> IF "client_final" \notin ToSet(families)
                                             THEN DictPop(no_review, "final")
                                             ELSE no_review ]

\* Lines 85-260: process(instance).  plugin holds self.profiles being set
\* and is_oiio_supported(); profile is what _get_profile returns.
process(instance, plugin, profile, delivery_overrides_dict, skeleton) ==
    IF \/ ~plugin.profiles
       \/ "representations" \notin DOMAIN instance
       \/ ~plugin.oiio_supported
       \/ IsNone(profile)
    THEN ProcessEnds("return", "", instance,
                     IF IsNone(profile) THEN <<>> ELSE profile.outputs, skeleton)
    ELSE Bind(get_sg_output_profiles(delivery_overrides_dict, skeleton), LAMBDA sg :
         IF sg.returned = "None"
         THEN ProcessEnds("raise", "TypeError", instance, profile.outputs,
                          sg.skeleton)
         ELSE
         Bind(ProfileOutputs(profile.outputs, sg, instance.families), LAMBDA prepared :
              IF prepared.outcome = "raise"
              THEN ProcessEnds("raise", prepared.error, instance,
                               prepared.outputs, sg.skeleton)
              ELSE
              Bind(RepresLoop([ outcome |-> "return", error |-> "",
                                representations |-> instance.representations,
                                new_representations |-> <<>>,
                                conversions |-> <<>>, cleanup |-> <<>>,
                                added_representations |-> FALSE,
                                added_review |-> FALSE ],
                              1, prepared.outputs, profile.delete_original),
                   LAMBDA done :
                   [ outcome |-> done.outcome, error |-> done.error,
                     instance |->
                         [ instance EXCEPT !.representations =
                             IF done.outcome = "raise"
                             THEN done.representations
                             ELSE RemoveDeleted(done.representations)
                                  \o done.new_representations ],
                     outputs |-> prepared.outputs,
                     new_representations |-> done.new_representations,
                     conversions |-> done.conversions,
                     cleanup |-> done.cleanup,
                     skeleton |-> sg.skeleton ])))

\* ------------------------------------------- the world of the extractor
\* File names "<stem>.<frame>.exr" and a single image.
FrameFile(stem, frame) == stem \o <<".">> \o frame \o <<".">> \o EXR
ThumbJpg == << "t", "h", "u", "m", "b", ".", "j", "p", "g" >>
\* The frames on disk: the stem, the frame number as the name writes it,
\* its value and the value in decimal.
Frames ==
    { [ stem |-> <<"a">>, frame |-> << "1", "0", "0", "1" >>, number |-> 1001,
        decimal |-> << "1", "0", "0", "1" >> ],
      [ stem |-> <<"a">>, frame |-> << "1", "0", "0", "2" >>, number |-> 1002,
        decimal |-> << "1", "0", "0", "2" >> ],
      [ stem |-> <<"a">>, frame |-> << "1", "0", "0", "3" >>, number |-> 1003,
        decimal |-> << "1", "0", "0", "3" >> ],
      [ stem |-> <<"b">>, frame |-> << "1", "0", "0", "1" >>, number |-> 1001,
        decimal |-> << "1", "0", "0", "1" >> ],
      [ stem |-> <<"b">>, frame |-> << "1", "0", "0", "2" >>, number |-> 1002,
        decimal |-> << "1", "0", "0", "2" >> ],
      [ stem |-> <<"a">>, frame |-> << "0", "9", "9", "8" >>, number |-> 998,
        decimal |-> << "9", "9", "8" >> ],
      [ stem |-> <<"a">>, frame |-> << "0", "9", "9", "9" >>, number |-> 999,
        decimal |-> << "9", "9", "9" >> ] }
FileNames == { FrameFile(f.stem, f.frame) : f \in Frames } \cup { ThumbJpg }

\* Lists of distinct file names, up to MaxFiles long.
FileLists ==
    { l \in UNION { [1..n -> FileNames] : n \in 0..MaxFiles } :
        \A i, j \in DOMAIN l : i # j => l[i] # l[j] }

\* The three frames of the documented example.
SequenceA ==
    << FrameFile(<<"a">>, << "1", "0", "0", "1" >>),
       FrameFile(<<"a">>, << "1", "0", "0", "2" >>),
       FrameFile(<<"a">>, << "1", "0", "0", "3" >>) >>

\* Representations an instance may carry.
AcesData == [ colorspace |-> "ACEScg", config |-> [path |-> "aces.ocio"] ]
SourceRepresentations ==
    { [ name |-> "exr", ext |-> EXR, files |-> FileList(SequenceA),
        stagingDir |-> "render", tags |-> << "review", "shotgridreview" >>,
        colorspaceData |-> AcesData ],
      [ name |-> "thumbnail", ext |-> JPG, files |-> FileStr(ThumbJpg),
        stagingDir |-> "render", tags |-> << "thumbnail" >>,
        colorspaceData |-> AcesData ],
      [ name |-> "mov", ext |-> MOV,
        files |-> FileStr(<< "a", ".", "m", "o", "v" >>),
        stagingDir |-> "render", tags |-> << "shotgridreview" >>,
        colorspaceData |-> AcesData ],
      [ name |-> "stereo", ext |-> EXR,
        files |-> FileList(<< FrameFile(<<"a">>, << "1", "0", "0", "1" >>),
                              FrameFile(<<"a">>, << "1", "0", "0", "2" >>),
                              FrameFile(<<"b">>, << "1", "0", "0", "1" >>),
                              FrameFile(<<"b">>, << "1", "0", "0", "2" >>) >>),
        stagingDir |-> "render", tags |-> << "review" >>,
        colorspaceData |-> AcesData ],
      [ name |-> "plate", ext |-> EXR,
        files |-> FileList(<< FrameFile(<<"b">>, << "1", "0", "0", "1" >>),
                              FrameFile(<<"b">>, << "1", "0", "0", "2" >>) >>),
        stagingDir |-> "render",
        colorspaceData |-> [ colorspace |-> "ACEScg" ] ],
      [ name |-> "png", ext |-> PNG,
        files |-> FileStr(<< "a", ".", "p", "n", "g" >>),
        stagingDir |-> "render" ] }

FamilyLists ==
    { << "client_review" >>, << "client_final" >>,
      << "client_review", "client_final" >> }

\* Instances: with up to MaxRepres distinct representations, or without
\* the key 'representations'.
Instances ==
    { [ families |-> f, representations |-> r ] :
        f \in FamilyLists,
        r \in { l \in UNION { [1..n -> SourceRepresentations] : n \in 0..MaxRepres } :
                  \A i, j \in DOMAIN l : i # j => l[i] # l[j] } }
    \cup { [ families |-> f ] : f \in FamilyLists }

\* The instances that come second in a publish: the frames of the render
\* for each list of families.
NextInstances ==
    { [ families |-> f,
        representations |->
            << [ name |-> "exr", ext |-> EXR, files |-> FileList(SequenceA),
                 stagingDir |-> "render",
                 tags |-> << "review", "shotgridreview" >>,
                 colorspaceData |-> AcesData ] >> ] : f \in FamilyLists }

\* Output definitions of the settings profiles.
ReviewOutput ==
    [ ProfileOutputSkeleton EXCEPT !.extension = DotJPG,
                                   !.colorspace = "input_process",
                                   !.tags = << "review", "shotgridreview" >> ]
FinalOutput ==
    [ ProfileOutputSkeleton EXCEPT !.extension = EXR,
                                   !.colorspace = "delivery_frame",
                                   !.custom_tags = << "client" >> ]
PassthroughOutput ==
    [ ProfileOutputSkeleton EXCEPT !.transcoding_type = "display_view",
                                   !.display = "sRGB", !.view = "ACES" ]
SettingsOutputs ==
    { << [name |-> "review", value |-> ReviewOutput],
         [name |-> "final", value |-> FinalOutput] >>,
      << [name |-> "passthrough", value |-> PassthroughOutput],
         [name |-> "review", value |-> ReviewOutput],
         [name |-> "final", value |-> FinalOutput] >>,
      << [name |-> "review", value |-> ReviewOutput] >> }

\* What _get_profile returns: a profile of the settings, or None.
Profiles ==
    { [ outputs |-> o, delete_original |-> d ] :
        o \in SettingsOutputs, d \in BOOLEAN } \cup { None }

\* self.profiles being set and is_oiio_supported().
Plugins ==
    { [ profiles |-> TRUE, oiio_supported |-> TRUE ],
      [ profiles |-> FALSE, oiio_supported |-> TRUE ],
      [ profiles |-> TRUE, oiio_supported |-> FALSE ] }

\* The output types an entity of Shotgrid may define for a delivery type:
\* named "<type>_<delivery type>", or by the name of the output type alone.
ReviewOutputTypes ==
    { <<>>,
      << [name |-> "exr_review", value |-> [sg_extension |-> EXR]] >>,
      << [name |-> "jpg_review", value |-> [sg_extension |-> JPG]],
         [name |-> "mov_review", value |-> [sg_extension |-> MOV]] >>,
      << [name |-> "EXR", value |-> [sg_extension |-> EXR]] >>,
      << [name |-> "JPG", value |-> [sg_extension |-> JPG]] >> }
FinalOutputTypes ==
    { <<>>,
      << [name |-> "exr_final", value |-> [sg_extension |-> EXR]] >>,
      << [name |-> "mov_final", value |-> [sg_extension |-> MOV]] >>,
      << [name |-> "EXR", value |-> [sg_extension |-> EXR]] >> }

\* The overrides of one entity, and context.data
\* ["shotgridDeliveryOverrides"]: those of the project and of the shot, an
\* empty dictionary, or None.
EntityOverrides ==
    { [ sg_review_lut |-> lut,
        sg_review_output_type |-> r, sg_final_output_type |-> f,
        sg_review_tags |-> << [name |-> "review"] >>,
        sg_final_tags |-> << [name |-> "final_delivery"] >> ] :
        lut \in BOOLEAN, r \in ReviewOutputTypes, f \in FinalOutputTypes }
EmptyDict == [ k \in {} |-> <<>> ]
DeliveryOverrides ==
    { [ project |-> p, shot |-> s ] : p \in EntityOverrides, s \in EntityOverrides }
    \cup { None, EmptyDict }

\* The overrides the instances of the modelled publishes are processed
\* with: none, an empty dictionary, a project without output types (review
\* LUT off), a project with a review output type, and a shot that
\* overrides it.
NoOutputTypes(lut) ==
    [ sg_review_lut |-> lut,
      sg_review_output_type |-> <<>>, sg_final_output_type |-> <<>>,
      sg_review_tags |-> << [name |-> "review"] >>,
      sg_final_tags |-> << [name |-> "final_delivery"] >> ]
ProcessOverrides ==
    { None, EmptyDict,
      [ project |-> NoOutputTypes(FALSE), shot |-> NoOutputTypes(FALSE) ],
      [ project |-> [ NoOutputTypes(TRUE) EXCEPT !.sg_review_output_type =
                        << [name |-> "exr_review", value |-> [sg_extension |-> EXR]] >> ],
        shot |-> NoOutputTypes(TRUE) ],
      [ project |-> [ NoOutputTypes(TRUE) EXCEPT !.sg_review_output_type =
                        << [name |-> "exr_review", value |-> [sg_extension |-> EXR]] >> ],
        shot |-> [ NoOutputTypes(TRUE) EXCEPT !.sg_review_output_type =
                        << [name |-> "JPG", value |-> [sg_extension |-> JPG]] >> ] ] }

\* The calls of process() explored: every instance with the plugin ready
\* and a profile found, and one instance for each way process() returns
\* at once.
ProcessPlugins(instance) ==
    IF instance.families = << "client_review" >>
       /\ "representations" \in DOMAIN instance
       /\ instance.representations = <<>>
    THEN Plugins ELSE { [ profiles |-> TRUE, oiio_supported |-> TRUE ] }
ProcessProfiles(instance, plugin) ==
    IF plugin.profiles /\ plugin.oiio_supported
       /\ "representations" \in DOMAIN instance
    THEN Profiles
    ELSE { None }
ProcessContexts(instance, plugin, profile) ==
    IF plugin.profiles /\ plugin.oiio_supported /\ ~IsNone(profile)
       /\ "representations" \in DOMAIN instance
    THEN ProcessOverrides
    ELSE { None }

\* ------------------------------------------- context_tools: the host
\* The directories of the global plug-ins and the discovery filter that
\* install_openpype_plugins registers and uninstall_host deregisters.
PUBLISH_PATH == "plugins/publish"
LOAD_PATH == "plugins/load"
INVENTORY_PATH == "plugins/inventory"
filter_pyblish_plugins == "filter_pyblish_plugins"

\* The keys install_host wants in legacy_io.Session.
RequiredSessionKeys == { "AVALON_PROJECT", "AVALON_ASSET" }

\* The variables of os.environ the installation reads; an environment is
\* the set of those that are set.
EnvironKeys == { "AVALON_PROJECT", "AVALON_ASSET", "OPENPYPE_REMOTE_PUBLISH", "IS_TEST" }
Environments == SUBSET EnvironKeys

\* The host objects given to install_host: with or without the optional
\* install and uninstall functions.
Hosts ==
    { [ name |-> "mrv2", install |-> TRUE, uninstall |-> FALSE ],
      [ name |-> "nuke", install |-> TRUE, uninstall |-> TRUE ],
      [ name |-> "shell", install |-> FALSE, uninstall |-> FALSE ] }

\* legacy_io.install(): once per connection, the session takes the context
\* keys the environment defines.
legacy_io_install(io, env) ==
    IF io.installed THEN io
    ELSE [ installed |-> TRUE,
           Session |-> io.Session \cup (env \cap RequiredSessionKeys) ]

\* legacy_io.uninstall(): the connection is closed.
legacy_io_uninstall(io) == [ io EXCEPT !.installed = FALSE ]

\* register_host / deregister_host / registered_host on _registered_host
register_host(host) == [ _ |-> host ]
deregister_host == [ _ |-> None ]
registered_host(registry) == registry._

\* is_in_tests(): the process runs under the automated tests.
is_in_tests(env) == "IS_TEST" \in env

\* The pyblish targets install_host registers.
InstallTargets(env) ==
    { IF "OPENPYPE_REMOTE_PUBLISH" \in env THEN "remote" ELSE "local" }
    \cup (IF is_in_tests(env) THEN { "automated" } ELSE {})

\* install_openpype_plugins(project_name, host_name): the global plug-in
\* paths and the discovery filter are registered, and the roots of the
\* project's anatomy when the environment names a project (the paths the
\* modules and the project settings add are outside the model).
install_openpype_plugins(registry, env) ==
    [ registry EXCEPT !.publish = @ \cup { PUBLISH_PATH },
                      !.discovery_filters = @ \cup { filter_pyblish_plugins },
                      !.load = @ \cup { LOAD_PATH },
                      !.inventory = @ \cup { INVENTORY_PATH },
                      !.root = IF "AVALON_PROJECT" \in env THEN "anatomy.roots" ELSE @ ]

\* install_host(host): the flag is set first; the assertion on the session
\* keys raises with the flag and the connection left as they are by then.
install_host(state, host, env) ==
    LET io == legacy_io_install(state.legacy_io, env)
        missing == RequiredSessionKeys \ io.Session
    IN  IF missing # {}
        THEN [ state EXCEPT !.is_installed = TRUE,
                            !.legacy_io = io,
                            !.outcome = "raise", !.error = "AssertionError" ]
        ELSE [ state EXCEPT
                 !.is_installed = TRUE,
                 !.legacy_io = io,
                 !.host_install_called = host.install,
                 !.registered_host = register_host(host),
                 !.registry = install_openpype_plugins(
                                  [ @ EXCEPT !.targets = @ \cup InstallTargets(env) ],
                                  env),
                 !.outcome = "return", !.error = "" ]

\* uninstall_host(): host.uninstall() when there is one (the
\* AttributeError of a host without it, or of no host, is swallowed), the
\* global plug-ins, the host and the connection are deregistered.  The
\* flag is not written.
uninstall_host(state) ==
    LET host == registered_host(state.registered_host)
    IN  [ state EXCEPT
            !.host_uninstall_called = IF IsNone(host) THEN FALSE ELSE host.uninstall,
            !.registry = [ @ EXCEPT !.publish = @ \ { PUBLISH_PATH },
                                    !.discovery_filters = @ \ { filter_pyblish_plugins },
                                    !.load = @ \ { LOAD_PATH },
                                    !.inventory = @ \ { INVENTORY_PATH } ],
            !.registered_host = deregister_host,
            !.legacy_io = legacy_io_uninstall(@),
            !.outcome = "return", !.error = "" ]

\* is_installed()
is_installed(flag) == flag

\* ----------------------------------- context_tools: the current context
\* The project document and the asset documents of the project store, by
\* id.  Names are sequences of characters; visualParent 0 is no parent.
ContextProject == [ name |-> "proj", data |-> [ code |-> << "S", "H", "W" >> ] ]
AssetDoc(name, sg_entity_type, visual_parent) ==
    [ name |-> name,
      data |-> [ visualParent |-> visual_parent, sgEntityType |-> sg_entity_type ] ]
AssetDocs ==
    << AssetDoc(<< "S", "1" >>, "Season", 0),
       AssetDoc(<< "E", "1" >>, "Episode", 1),
       AssetDoc(<< "q", "1" >>, "Sequence", 2),
       AssetDoc(<< "q", "1", "_", "1", "0" >>, "Shot", 3),
       AssetDoc(<< "q", "2" >>, "Sequence", 0),
       AssetDoc(<< "q", "2", "_", "e", "_", "2", "0" >>, "Shot", 5),
       AssetDoc(<< "s", "h" >>, "Shot", 0),
       AssetDoc(<< "c", "h", "r" >>, "Asset", 0),
       AssetDoc(<< "l", "i", "b" >>, "Folder", 5),
       AssetDoc(<< "x" >>, "Shot", 99) >>
ContextTasks == { "comp", "paint" }

\* get_asset_by_id(project_name, asset_id): the document or None.
get_asset_by_id(asset_id) ==
    IF asset_id \in DOMAIN AssetDocs THEN AssetDocs[asset_id] ELSE None

\* Lines 573-586: the asset and its visual parents, the asset first.
RECURSIVE VisualHierarchy(_)
VisualHierarchy(current_doc) ==
    IF current_doc.data.visualParent = 0
       \/ IsNone(get_asset_by_id(current_doc.data.visualParent))
    THEN << current_doc >>
    ELSE << current_doc >>
         \o VisualHierarchy(get_asset_by_id(current_doc.data.visualParent))

\* Lines 590-597: the SG entity types and their environment variables.
sg_to_env_map ==
    [ t \in { "Project", "Season", "Episode", "Sequence", "Shot", "Asset" } |->
        CASE t = "Project" -> "SHOW"
          [] t = "Season" -> "SEASON"
          [] t = "Episode" -> "EPISODE"
          [] t = "Sequence" -> "SEQ"
          [] t = "Shot" -> "SHOT"
          [] t = "Asset" -> "ASSET_TYPE" ]

HierarchyEnvKeys ==
    { "SHOW", "SEASON", "EPISODE", "SEQ", "SHOT", "SHOTNUM", "ASSET_TYPE" }

\* Lines 612-616: for parent in visual_hierarchy: env[env_key] = name.
RECURSIVE SetHierarchyEnv(_, _)
SetHierarchyEnv(env, visual_hierarchy) ==
    IF visual_hierarchy = <<>> THEN env
    ELSE SetHierarchyEnv(
             IF Head(visual_hierarchy).data.sgEntityType \in DOMAIN sg_to_env_map
             THEN [ env EXCEPT
                      ![sg_to_env_map[Head(visual_hierarchy).data.sgEntityType]] =
                          Head(visual_hierarchy).name ]
             ELSE env,
             Tail(visual_hierarchy))

\* str.split("_")[-1]
SplitLast(str) ==
    IF \A i \in DOMAIN str : str[i] # "_" THEN str
    ELSE SubSeq(str,
                1 + (CHOOSE i \in DOMAIN str :
                        /\ str[i] = "_"
                        /\ \A j \in DOMAIN str : str[j] = "_" => j <= i),
                Len(str))

\* Lines 620-621: SHOTNUM is the last token of SHOT when there is a SHOT.
FillShotnum(env) ==
    IF ~IsNone(env.SHOT) /\ env.SHOT # <<>>
    THEN [ env EXCEPT !.SHOTNUM = SplitLast(env.SHOT) ] ELSE env

\* Lines 552-626: get_hierarchy_env(project_doc, asset_doc, skip_empty).
get_hierarchy_env(project_doc, asset_doc, skip_empty) ==
    Bind(FillShotnum(SetHierarchyEnv(
             [ k \in HierarchyEnvKeys |->
                 IF k = "SHOW" THEN project_doc.data.code ELSE None ],
             VisualHierarchy(asset_doc))),
         LAMBDA env :
         IF skip_empty
         THEN [ k \in { key \in DOMAIN env : ~IsNone(env[key]) } |-> env[k] ]
         ELSE env)

\* dict.get(key): None when the key is not there.
DictGetOrNone(d, key) == IF key \in DOMAIN d THEN d[key] ELSE None

\* value != other for str / None values.
PyNotEqual(value, other) == ToString(value) # ToString(other)

\* dict.update(changes)
UpdateKeys(d, changes) ==
    [ k \in DOMAIN d \cup DOMAIN changes |->
        IF k \in DOMAIN changes THEN changes[k] ELSE d[k] ]

\* Lines 630-684: compute_session_changes(session, asset_doc, task_name).
compute_session_changes(session, asset_doc, task_name) ==
    LET mapping == [ k \in { "AVALON_ASSET", "AVALON_TASK" } |->
                       IF IsNone(asset_doc) THEN None
                       ELSE IF k = "AVALON_ASSET" THEN asset_doc.name
                       ELSE task_name ]
    IN  Bind([ k \in { key \in DOMAIN mapping :
                         PyNotEqual(mapping[key], DictGetOrNone(session, key)) } |->
                 mapping[k] ],
             LAMBDA changes :
             IF DOMAIN changes = {} THEN changes
             ELSE SetKey(changes, "AVALON_WORKDIR",
                         IF IsNone(asset_doc) THEN None
                         ELSE get_workdir_from_session(UpdateKeys(session, changes))))

\* for key, value in d.items(): os.environ.pop(key, None) when the value
\* is None, os.environ[key] = value otherwise.
UpdateEnviron(env, d) ==
    [ k \in { key \in DOMAIN env \cup DOMAIN d :
                key \in DOMAIN d => ~IsNone(d[key]) } |->
        IF k \in DOMAIN d THEN d[k] ELSE env[k] ]

\* Lines 687-738 with the hierarchy environment computed with skip_empty
\* left at its default: the variables of absent levels are not popped.
change_current_context_SkipEmpty(state, asset_doc, task_name) ==
    Bind(compute_session_changes(state.Session, asset_doc, task_name),
         LAMBDA changes :
         IF IsNone(asset_doc)
         THEN [ outcome |-> "raise", error |-> "TypeError", changes |-> changes,
                Session |-> UpdateKeys(state.Session, changes),
                environ |-> UpdateEnviron(state.environ, changes),
                event |-> None ]
         ELSE [ outcome |-> "return", error |-> "", changes |-> changes,
                Session |-> UpdateKeys(state.Session, changes),
                environ |-> UpdateEnviron(
                                UpdateEnviron(state.environ, changes),
                                get_hierarchy_env(ContextProject, asset_doc, TRUE)),
                event |-> [ topic |-> "taskChanged",
                            asset_name |-> UpdateKeys(state.Session, changes).AVALON_ASSET,
                            task_name |-> UpdateKeys(state.Session, changes).AVALON_TASK ] ])

\* Lines 687-738: change_current_context(asset_doc, task_name).  The
\* session and the environment take the changes, then the environment
\* takes the hierarchy variables of the asset (those without a value are
\* popped) and the event is emitted.  Without an asset document
\* get_hierarchy_env raises after the changes were applied.
change_current_context(state, asset_doc, task_name) ==
    Bind(compute_session_changes(state.Session, asset_doc, task_name),
         LAMBDA changes :
         IF IsNone(asset_doc)
         THEN [ outcome |-> "raise", error |-> "TypeError", changes |-> changes,
                Session |-> UpdateKeys(state.Session, changes),
                environ |-> UpdateEnviron(state.environ, changes),
                event |-> None ]
         ELSE [ outcome |-> "return", error |-> "", changes |-> changes,
                Session |-> UpdateKeys(state.Session, changes),
                environ |-> UpdateEnviron(
                                UpdateEnviron(state.environ, changes),
                                get_hierarchy_env(ContextProject, asset_doc, FALSE)),
                event |-> [ topic |-> "taskChanged",
                            asset_name |-> UpdateKeys(state.Session, changes).AVALON_ASSET,
                            task_name |-> UpdateKeys(state.Session, changes).AVALON_TASK ] ])

\* ==================================== IntegrateShotgridVersion (publish)
\* The Shotgrid project and task of the publish context.
ShotgridProject == "prj"
ShotgridTask == "comp"

\* Published paths, as characters.
MovPath == << "/", "p", "/", "a", ".", "m", "o", "v" >>
FramePath == << "/", "p", "/", "a", ".", "1", "0", "0", "1", ".", "j", "p", "g" >>

\* The representations of the instances integrated: none, a tagged movie,
\* tagged frames, a movie without the tag.
IntegrateRepresentations ==
    { <<>>,
      << [ name |-> "h264", ext |-> "mov", tags |-> << "shotgridreview" >>,
           published_path |-> MovPath ] >>,
      << [ name |-> "jpg", ext |-> "jpg", tags |-> << "shotgridreview" >>,
           published_path |-> FramePath ] >>,
      << [ name |-> "h264", ext |-> "mov", tags |-> <<>>,
           published_path |-> MovPath ] >> }

\* The instances: asset (the Shotgrid entity), subset and version of the
\* anatomy data, the farm mark, the version document when there is one
\* (the instance of sh020 has none).
IntegrateKeys ==
    { [ asset |-> "sh010", version |-> 1, versionEntity |-> "op4" ],
      [ asset |-> "sh010", version |-> 2, versionEntity |-> "op5" ],
      [ asset |-> "sh020", version |-> 1, versionEntity |-> "" ] }
IntegrateInstances ==
    { [ farm |-> farm, asset |-> k.asset, subset |-> "renderMain",
        version |-> k.version, shotgridEntity |-> k.asset, family |-> "render",
        frameStart |-> 1001, frameEnd |-> 1010, handleStart |-> 8, handleEnd |-> 8,
        versionEntity |-> k.versionEntity, representations |-> representations ] :
        farm \in BOOLEAN, k \in IntegrateKeys,
        representations \in IntegrateRepresentations }

\* Lines 44-48: "{}_{}_{}".format(asset, subset, "v{:03}".format(version)).
VersionCode(instance) ==
    instance.asset \o "_" \o instance.subset \o "_v"
        \o ZeroPad(ToString(instance.version), 3)

\* Lines 155-165 with the filter on the code left out.
_find_existing_version_NoCode(store, code, instance) ==
    LET found == { i \in DOMAIN store :
                     /\ store[i].project = ShotgridProject
                     /\ store[i].sg_task = ShotgridTask
                     /\ store[i].entity = instance.shotgridEntity }
    IN  IF found = {} THEN None
        ELSE store[CHOOSE i \in found : \A o \in found : i <= o]

\* Lines 155-165: sg.find_one("Version", filters): the first Version of the
\* project, task, entity and code, or None.
_find_existing_version(store, code, instance) ==
    LET found == { i \in DOMAIN store :
                     /\ store[i].project = ShotgridProject
                     /\ store[i].sg_task = ShotgridTask
                     /\ store[i].entity = instance.shotgridEntity
                     /\ store[i].code = code }
    IN  IF found = {} THEN None
        ELSE store[CHOOSE i \in found : \A o \in found : i <= o]

\* sg.create gives the entity the next id of the site.
NextSgId(store) ==
    1 + (IF store = <<>> THEN 0
         ELSE CHOOSE n \in { store[i].id : i \in DOMAIN store } :
                 \A i \in DOMAIN store : store[i].id <= n)

\* Lines 168-178: sg.create("Version", version_data).
_create_version(store, code, instance) ==
    [ id |-> NextSgId(store), project |-> ShotgridProject,
      sg_task |-> ShotgridTask, entity |-> instance.shotgridEntity,
      code |-> code, data |-> [ k \in {} |-> "" ] ]

\* re.sub(r"\.\d+\.", ".%04d.", local_path)
RECURSIVE PaddingSub(_)
PaddingSub(path) ==
    IF path = <<>> THEN path
    ELSE LET digits == { k \in 2..Len(path) :
                           \A j \in 2..k : IsDigit(path[j]) }
             last_digit == IF digits = {} THEN 1
                           ELSE CHOOSE k \in digits : \A o \in digits : o <= k
         IN  IF /\ path[1] = "." /\ digits # {}
                /\ last_digit < Len(path) /\ path[last_digit + 1] = "."
             THEN << ".", "%", "0", "4", "d", "." >>
                  \o PaddingSub(SubSeq(path, last_digit + 2, Len(path)))
             ELSE << path[1] >> \o PaddingSub(Tail(path))

\* Lines 64-105: data_to_update before the representations are looked at
\* (the context has no intent, the instance no comment).
DataToUpdate(instance) ==
    [ sg_first_frame |-> instance.frameStart - instance.handleStart,
      sg_last_frame |-> instance.frameEnd + instance.handleEnd,
      sg_version_type |-> instance.family,
      sg_op_instance_id |-> IF instance.versionEntity = "" THEN "-"
                            ELSE instance.versionEntity ]

\* Lines 107-147: the loop over the representations: the movie of a
\* representation tagged shotgridreview is uploaded, the path of the movie
\* or of the frames goes to data_to_update.
RECURSIVE RepresentationsLoop(_, _, _)
RepresentationsLoop(acc, version, representations) ==
    IF representations = <<>> THEN acc
    ELSE LET representation == Head(representations) IN
         RepresentationsLoop(
             IF "shotgridreview" \notin ToSet(representation.tags) THEN acc
             ELSE IF representation.ext \in { "mov", "avi", "mp4" }
             THEN [ calls |-> Append(acc.calls,
                                     [ call |-> "upload", id |-> version.id,
                                       path |-> representation.published_path ]),
                    data |-> SetKey(acc.data, "sg_path_to_movie",
                                    representation.published_path) ]
             ELSE IF representation.ext \in { "jpg", "png", "exr", "tga" }
             THEN [ acc EXCEPT !.data =
                      SetKey(@, "sg_path_to_frames",
                             PaddingSub(representation.published_path)) ]
             ELSE acc,
             version, Tail(representations))

\* sg.update("Version", id, data): the fields of the entity are set.
SgUpdate(store, id, data) ==
    [ i \in DOMAIN store |->
        IF store[i].id = id
        THEN [ store[i] EXCEPT !.data = UpdateKeys(@, data) ]
        ELSE store[i] ]

\* Lines 29-152: process(instance): the Shotgrid calls made, and the
\* Versions of the site after them.
integrate_process(store, instance) ==
    IF instance.farm
    THEN [ calls |-> <<>>, store |-> store, version |-> None ]
    ELSE Bind(_find_existing_version(store, VersionCode(instance), instance),
         LAMBDA found :
         Bind(IF IsNone(found)
              THEN _create_version(store, VersionCode(instance), instance)
              ELSE found,
         LAMBDA version :
         Bind(RepresentationsLoop(
                  [ calls |-> << [ call |-> "find_one" ] >>
                              \o (IF IsNone(found)
                                  THEN << [ call |-> "create", id |-> version.id ] >>
                                  ELSE <<>>),
                    data |-> DataToUpdate(instance) ],
                  version, instance.representations),
         LAMBDA done :
         [ calls |-> Append(done.calls,
                            [ call |-> "update", id |-> version.id,
                              data |-> done.data ]),
           store |-> SgUpdate(IF IsNone(found) THEN Append(store, version)
                              ELSE store,
                              version.id, done.data),
           version |-> version ])))

\* ------------------------------------------------------------- the state
VARIABLES
    pc,             \* "idle", "loop", "submit", "write", "returned", "raised"
    call,           \* the entry point running and its arguments
    idx,            \* position of the loop in call.sg_versions
    report_items,   \* report_items of the entry point
    success,        \* success of the entry point
    ret,            \* what the entry point returned
    Session,        \* legacy_io.Session, global to the process
    instance_data,  \* instance_data of the version being republished
    version_report, \* report_items of the per-version function
    job_id,         \* deadline_publish_job_id of the version
    submitted,      \* farm jobs submitted by this call, in order
    manifests,      \* manifest files written by this call, in order
    last,           \* the latest per-version call and what it came to
    version_reports, \* the reports the per-version calls of this call returned
    tpc,            \* extractor: "ready", "translated", "resolved", ...
    targs,          \* extractor: the method called and its arguments
    tret,           \* extractor: what the call returned or raised
    tfirst,         \* extractor: what the first get_sg_output_profiles returned
    profile_output_skeleton, \* ExtractOIIOTranscode.profile_output_skeleton
    _is_installed,  \* context_tools._is_installed
    _registered_host, \* context_tools._registered_host
    legacy_io,      \* the connection of legacy_io and the keys of its Session
    registry,       \* pyblish targets, plug-in paths and filters registered
    environ,        \* the variables set in os.environ
    hret,           \* host: the latest call and what it came to
    hlast,          \* host: how the latest install_host / uninstall_host ended
    context_session, \* context: legacy_io.Session
    context_environ, \* context: os.environ
    context_ret,    \* context: the latest change_current_context and its result
    sg_store,       \* integrator: the Versions of the Shotgrid site
    integrate_ret   \* integrator: the latest process() and its Shotgrid calls

dvars == << pc, call, idx, report_items, success, ret, Session, instance_data,
           version_report, job_id, submitted, manifests, last,
           version_reports >>

tvars == << tpc, targs, tret, tfirst, profile_output_skeleton >>

hvars == << _is_installed, _registered_host, legacy_io, registry, environ,
           hret, hlast >>

cvars == << context_session, context_environ, context_ret >>

svars == << sg_store, integrate_ret >>

vars == << dvars, tvars, hvars, cvars, svars >>

EmptySession ==
    [ AVALON_ASSET |-> "", AVALON_TASK |-> "", AVALON_WORKDIR |-> <<>>,
      AVALON_PROJECT |-> "", AVALON_APP |-> "" ]

NoInstance == [ project |-> "None" ]
NoCall == [ fn |-> "None" ]
NoReturn == [ kind |-> "none", report |-> EmptyReport, items |-> <<>>,
              success |-> FALSE ]
NoLast == [ kind |-> "none" ]

\* Playlists: the SG Versions sg.find returns for a playlist, all distinct.
Playlists ==
    { p \in UNION { [1..n -> SGVersions] : n \in 0..MaxVersions } :
        \A i, j \in DOMAIN p : i # j => p[i].id # p[j].id }

DeliveryInit ==
    /\ pc = "idle"
    /\ call = NoCall
    /\ idx = 1
    /\ report_items = EmptyReport
    /\ success = TRUE
    /\ ret = NoReturn
    /\ Session = EmptySession
    /\ instance_data = NoInstance
    /\ version_report = EmptyReport
    /\ job_id = ""
    /\ submitted = <<>>
    /\ manifests = <<>>
    /\ last = NoLast
    /\ version_reports = <<>>

NoPluginCall == [ kind |-> "none" ]

TranscodeInit ==
    /\ tpc = "ready"
    /\ targs = NoPluginCall
    /\ tret = NoPluginCall
    /\ tfirst = NoPluginCall
    /\ profile_output_skeleton = ProfileOutputSkeleton

NoHostCall == [ fn |-> "none", outcome |-> "none", error |-> "", value |-> FALSE,
                host_install_called |-> FALSE, host_uninstall_called |-> FALSE ]

\* The module as imported: nothing installed, no host, nothing registered.
HostInit ==
    /\ _is_installed = FALSE
    /\ _registered_host = [ _ |-> None ]
    /\ legacy_io = [ installed |-> FALSE, Session |-> {} ]
    /\ registry = [ targets |-> {}, publish |-> {}, discovery_filters |-> {},
                    load |-> {}, inventory |-> {}, root |-> "" ]
    /\ environ = {}
    /\ hret = NoHostCall
    /\ hlast = "none"

NoContextCall == [ fn |-> "none" ]

\* The process as launched in the context of a shot: the session names it
\* and the environment holds its hierarchy variables.
ContextLaunch(asset_doc, task_name) ==
    /\ context_session =
         [ AVALON_PROJECT |-> ContextProject.name, AVALON_ASSET |-> asset_doc.name,
           AVALON_TASK |-> task_name, AVALON_APP |-> "nuke",
           AVALON_WORKDIR |-> <<>> ]
    /\ context_environ =
         UpdateEnviron([ k \in { "AVALON_ASSET", "AVALON_TASK" } |->
                           IF k = "AVALON_ASSET" THEN asset_doc.name ELSE task_name ],
                       get_hierarchy_env(ContextProject, asset_doc, TRUE))
    /\ context_ret = NoContextCall

ContextInit == ContextLaunch(AssetDocs[4], "comp")

NoIntegrateCall == [ fn |-> "none" ]

\* The site has the Version of an earlier publish of sh010.
IntegrateInit ==
    /\ sg_store = << [ id |-> 1, project |-> ShotgridProject,
                       sg_task |-> ShotgridTask, entity |-> "sh010",
                       code |-> "sh010_renderMain_v001",
                       data |-> [ sg_op_instance_id |-> "op4" ] ] >>
    /\ integrate_ret = NoIntegrateCall

Init == DeliveryInit /\ TranscodeInit /\ HostInit /\ ContextInit /\ IntegrateInit

\* The state at the first line of an entry point (called when idle).
Enter(new_call) ==
    /\ call' = new_call
    /\ idx' = 1
    /\ report_items' = EmptyReport
    /\ success' = TRUE
    /\ instance_data' = NoInstance
    /\ version_report' = EmptyReport
    /\ job_id' = ""
    /\ submitted' = <<>>
    /\ manifests' = <<>>
    /\ last' = NoLast
    /\ version_reports' = <<>>
    /\ UNCHANGED Session

\* report_items[msg] of a defaultdict(list): the list stored under msg, a
\* new empty list when there was none.
DefaultGet(report, msg) ==
    IF msg \in DOMAIN report THEN report[msg] ELSE <<>>

\* Lines 78-80, 417-419, 742-744:
\* return report_items[f"Didn't find project ..."], False
ProjectNotFoundReturn(project_name) ==
    [ kind |-> "list",
      report |-> EmptyReport,
      items |-> DefaultGet(EmptyReport, ProjectNotFoundMsg(project_name)),
      success |-> FALSE ]

\* return report_items, success
MappingReturn(report, flag) ==
    [ kind |-> "mapping", report |-> report, items |-> <<>>, success |-> flag ]

\* What a playlist function does with the result of one version (lines
\* 99-103); a version-id function returns that result as it is.
Accumulate(fn, report, new_report_items) ==
    IF fn \in PlaylistFunctions
    THEN ReportUpdate(report, new_report_items)
    ELSE new_report_items

\* ------------------------------------------------------------ the actions
IsDeliver(fn) == fn \in {"deliver_playlist_id", "deliver_version_id"}
IsRepublish(fn) == fn \in {"republish_playlist_id", "republish_version_id"}
IsGenerate(fn) ==
    fn \in {"generate_delivery_media_playlist_id",
            "generate_delivery_media_version_id"}

\* The arguments each entry point has: force is of republish and generate,
\* delivery_templates of deliver, description of generate.
ForceValues(fn) == IF IsDeliver(fn) THEN {FALSE} ELSE BOOLEAN
TemplateValues(fn) == IF IsDeliver(fn) THEN TemplateDicts ELSE {"None"}
DescriptionValues(fn) == IF IsGenerate(fn) THEN Descriptions ELSE {""}

\* deliver_playlist_id, republish_playlist_id,
\* generate_delivery_media_playlist_id up to their loop.
CallPlaylist ==
    /\ pc = "idle"
    /\ \E fn \in PlaylistFunctions, project_name \in SGProjects,
       sg_versions \in Playlists, delivery_types \in DeliveryTypeLists,
       representation_names \in RepresentationNameLists :
         \E force \in ForceValues(fn),
            delivery_templates \in TemplateValues(fn),
            description \in DescriptionValues(fn) :
        /\ Enter([ fn |-> fn, project_name |-> project_name,
                   sg_versions |-> sg_versions,
                   delivery_types |-> delivery_types,
                   representation_names |-> representation_names,
                   force |-> force, delivery_templates |-> delivery_templates,
                   description |-> description ])
        /\ IF get_project(project_name)
           THEN pc' = "loop" /\ ret' = NoReturn
           ELSE pc' = "returned" /\ ret' = ProjectNotFoundReturn(project_name)
    /\ UNCHANGED << tvars, hvars, cvars, svars >>

\* deliver_version_id, republish_version_id,
\* generate_delivery_media_version_id up to the call of the version
\* function.  Only deliver_version_id tests what sg.find_one returned; the
\* other two subscript it.
CallVersionId ==
    /\ pc = "idle"
    /\ \E fn \in Functions \ PlaylistFunctions,
       version_id \in { v.id : v \in SGVersions } \cup UnknownVersionIds,
       delivery_types \in DeliveryTypeLists,
       representation_names \in RepresentationNameLists :
         \E force \in ForceValues(fn),
            delivery_templates \in TemplateValues(fn),
            description \in DescriptionValues(fn) :
        LET found == { v \in SGVersions : v.id = version_id } IN
        /\ Enter([ fn |-> fn, project_name |-> "prj",
                   sg_versions |-> IF found = {} THEN <<>>
                                   ELSE << CHOOSE v \in found : TRUE >>,
                   delivery_types |-> delivery_types,
                   representation_names |-> representation_names,
                   force |-> force, delivery_templates |-> delivery_templates,
                   description |-> description ])
        /\ IF found # {}
           THEN pc' = "loop" /\ ret' = NoReturn
           ELSE IF fn = "deliver_version_id"
           THEN /\ pc' = "returned"
                /\ ret' = MappingReturn(
                              ReportAppend(EmptyReport, "SG Version not found",
                                           ToString(version_id)), FALSE)
           ELSE pc' = "raised" /\ ret' = NoReturn
    /\ UNCHANGED << tvars, hvars, cvars, svars >>

\* One call of deliver_version from the loop of deliver_playlist_id (or
\* from deliver_version_id).
DeliverStep ==
    /\ pc = "loop" /\ IsDeliver(call.fn) /\ idx <= Len(call.sg_versions)
    /\ LET sg_version == call.sg_versions[idx]
           result == DeliverVersion(sg_version, call.representation_names,
                                    call.delivery_templates)
       IN  /\ last' = [ kind |-> "deliver", sg_version |-> sg_version,
                        result |-> result ]
           /\ IF result.outcome = "raise"
              THEN /\ pc' = "raised"
                   /\ UNCHANGED << idx, report_items, success, version_reports >>
              ELSE /\ pc' = "loop"
                   /\ idx' = idx + 1
                   /\ report_items' = Accumulate(call.fn, report_items, result.report)
                   /\ success' = (success /\ result.success)
                   /\ version_reports' = Append(version_reports, result.report)
    /\ UNCHANGED << call, ret, Session, instance_data, version_report, job_id,
                    submitted, manifests >>
    /\ UNCHANGED << tvars, hvars, cvars, svars >>

\* republish_version up to the farm submission (lines 505-665).
RepublishStep ==
    /\ pc = "loop" /\ IsRepublish(call.fn) /\ idx <= Len(call.sg_versions)
    /\ LET sg_version == call.sg_versions[idx]
           result == RepublishChecks(sg_version, call.delivery_types,
                                     call.representation_names, call.force)
           built == RepublishInstance(sg_version, call.project_name,
                                      call.delivery_types)
       IN  /\ last' = [ kind |-> "republish", sg_version |-> sg_version,
                        result |-> result ]
           /\ IF result.outcome = "return"
              THEN /\ pc' = "loop"
                   /\ idx' = idx + 1
                   /\ report_items' = Accumulate(call.fn, report_items, result.report)
                   /\ success' = (success /\ result.success)
                   /\ version_reports' = Append(version_reports, result.report)
                   /\ UNCHANGED << Session, instance_data, version_report >>
              ELSE /\ pc' = "submit"
                   /\ instance_data' = built
                   /\ Session' = RepublishSession(built)
                   /\ version_report' = EmptyReport
                   /\ UNCHANGED << idx, report_items, success, version_reports >>
    /\ UNCHANGED << call, ret, job_id, submitted, manifests >>
    /\ UNCHANGED << tvars, hvars, cvars, svars >>

\* generate_delivery_media_version up to the farm submission (lines
\* 844-1066).
GenerateStep ==
    /\ pc = "loop" /\ IsGenerate(call.fn) /\ idx <= Len(call.sg_versions)
    /\ LET sg_version == call.sg_versions[idx]
           result == GenerateChecks(sg_version, call.project_name,
                                    call.delivery_types,
                                    call.representation_names, call.force,
                                    call.description)
           built == GenerateInstance(sg_version, call.project_name,
                                     call.delivery_types, call.description,
                                     Session)
       IN  /\ last' = [ kind |-> "generate", sg_version |-> sg_version,
                        result |-> result ]
           /\ IF result.outcome = "return"
              THEN /\ pc' = "loop"
                   /\ idx' = idx + 1
                   /\ report_items' = Accumulate(call.fn, report_items, result.report)
                   /\ success' = (success /\ result.success)
                   /\ version_reports' = Append(version_reports, result.report)
                   /\ UNCHANGED << Session, instance_data, version_report >>
              ELSE /\ pc' = "submit"
                   /\ instance_data' = built
                   /\ Session' = GenerateSession(Session, call.project_name,
                                                 built.asset, built.task)
                   /\ version_report' = EmptyReport
                   /\ UNCHANGED << idx, report_items, success, version_reports >>
    /\ UNCHANGED << call, ret, job_id, submitted, manifests >>
    /\ UNCHANGED << tvars, hvars, cvars, svars >>

SubmittedMsg(fn) ==
    IF IsRepublish(fn) THEN "Submitted republish job to Deadline"
    ELSE "Submitted generate delivery media job to Deadline"

\* utils.submit_deadline_post_job (lines 668-672, 1069-1075): the farm
\* answers with a job id, which the report records ...
SubmitJob ==
    /\ pc = "submit"
    /\ \E deadline_publish_job_id \in FarmJobIds :
        /\ job_id' = deadline_publish_job_id
        /\ version_report' = ReportAppend(version_report, SubmittedMsg(call.fn),
                                          deadline_publish_job_id)
        /\ submitted' = Append(submitted,
                               [ batch |-> instance_data.jobBatchName,
                                 metadata_path |-> create_metadata_path(instance_data) ])
    /\ pc' = "write"
    /\ UNCHANGED << call, idx, report_items, success, ret, Session,
                    instance_data, manifests, last, version_reports >>
    /\ UNCHANGED << tvars, hvars, cvars, svars >>

\* The submission raising after the manifest was already written (the
\* write placed before the submission).
SubmitRaises_ManifestFirst ==
    /\ pc = "submit"
    /\ pc' = "raised"
    /\ manifests' = Append(manifests,
                           [ path |-> create_metadata_path(instance_data),
                             sg_version |-> call.sg_versions[idx],
                             publish_job |-> PublishJob(instance_data, Session,
                                                        job_id, DeadlineUrl),
                             text |-> json_dump(PublishJob(instance_data, Session,
                                                           job_id, DeadlineUrl)),
                             deadline_publish_job_id |-> job_id ])
    /\ UNCHANGED << call, idx, report_items, success, ret, Session,
                    instance_data, version_report, job_id, submitted,
                    last, version_reports >>
    /\ UNCHANGED << tvars, hvars, cvars, svars >>

\* ... or the submission raises, and nothing catches the exception.
SubmitRaises ==
    /\ pc = "submit"
    /\ pc' = "raised"
    /\ UNCHANGED << call, idx, report_items, success, ret, Session,
                    instance_data, version_report, job_id, submitted,
                    manifests, last, version_reports >>
    /\ UNCHANGED << tvars, hvars, cvars, svars >>

\* Lines 674-702 and 1077-1105: the manifest is written, the version
\* function returns (report_items, True) and the loop goes on.
WriteManifest ==
    /\ pc = "write"
    /\ manifests' = Append(manifests,
                           [ path |-> create_metadata_path(instance_data),
                             sg_version |-> call.sg_versions[idx],
                             publish_job |-> PublishJob(instance_data, Session,
                                                        job_id, DeadlineUrl),
                             text |-> json_dump(PublishJob(instance_data, Session,
                                                           job_id, DeadlineUrl)),
                             deadline_publish_job_id |-> job_id ])
    /\ last' = [ kind |-> IF IsRepublish(call.fn) THEN "republish" ELSE "generate",
                 sg_version |-> call.sg_versions[idx],
                 result |-> Returned(version_report, TRUE) ]
    /\ report_items' = Accumulate(call.fn, report_items, version_report)
    /\ version_reports' = Append(version_reports, version_report)
    /\ success' = success
    /\ idx' = idx + 1
    /\ pc' = "loop"
    /\ instance_data' = NoInstance
    /\ version_report' = EmptyReport
    /\ job_id' = ""
    /\ UNCHANGED << call, ret, Session, submitted >>
    /\ UNCHANGED << tvars, hvars, cvars, svars >>

\* The end of the loop: return report_items, success.
Return ==
    /\ pc = "loop" /\ idx > Len(call.sg_versions)
    /\ ret' = MappingReturn(report_items, success)
    /\ pc' = "returned"
    /\ UNCHANGED << call, idx, report_items, success, Session, instance_data,
                    version_report, job_id, submitted, manifests, last,
           version_reports >>
    /\ UNCHANGED << tvars, hvars, cvars, svars >>

\* The entry point has returned to its caller (the command line or the
\* dialog), which may call another one in the same process: the global
\* session is all that is left of the call.
NextCall ==
    /\ pc = "returned"
    /\ pc' = "idle"
    /\ call' = NoCall
    /\ idx' = 1
    /\ report_items' = EmptyReport
    /\ success' = TRUE
    /\ ret' = NoReturn
    /\ instance_data' = NoInstance
    /\ version_report' = EmptyReport
    /\ job_id' = ""
    /\ submitted' = <<>>
    /\ manifests' = <<>>
    /\ last' = NoLast
    /\ version_reports' = <<>>
    /\ UNCHANGED Session
    /\ UNCHANGED << tvars, hvars, cvars, svars >>

Next ==
    \/ CallPlaylist
    \/ CallVersionId
    \/ DeliverStep
    \/ RepublishStep
    \/ GenerateStep
    \/ SubmitJob
    \/ SubmitRaises
    \/ WriteManifest
    \/ Return
    \/ NextCall

Spec == Init /\ [][Next]_vars

\* ------------------------------------------------ the actions, extractor
\* _translate_to_sequence called on a list of file names.
TranslateToSequence ==
    /\ tpc = "ready"
    /\ \E files_to_convert \in FileLists :
        /\ targs' = [ kind |-> "_translate_to_sequence",
                      files_to_convert |-> files_to_convert ]
        /\ tret' = _translate_to_sequence(files_to_convert)
    /\ tpc' = "translated"
    /\ UNCHANGED << tfirst, profile_output_skeleton >>
    /\ UNCHANGED << dvars, hvars, cvars, svars >>

\* get_sg_output_profiles called for an instance whose context carries
\* delivery_overrides_dict.
GetSgOutputProfiles ==
    /\ tpc = "ready"
    /\ \E delivery_overrides_dict \in DeliveryOverrides :
        LET result == get_sg_output_profiles(delivery_overrides_dict,
                                             profile_output_skeleton)
        IN  /\ targs' = [ kind |-> "get_sg_output_profiles",
                          delivery_overrides_dict |-> delivery_overrides_dict,
                          context |-> result.delivery_overrides_dict ]
            /\ tret' = result
            /\ tfirst' = result
            /\ profile_output_skeleton' = result.skeleton
    /\ tpc' = "resolved"
    /\ UNCHANGED << dvars, hvars, cvars, svars >>

\* ... and called again on the context the first call left.
GetSgOutputProfilesAgain ==
    /\ tpc = "resolved"
    /\ LET result == get_sg_output_profiles(targs.context, profile_output_skeleton)
       IN  /\ targs' = [ targs EXCEPT !.context = result.delivery_overrides_dict ]
           /\ tret' = result
           /\ profile_output_skeleton' = result.skeleton
    /\ tpc' = "resolved_again"
    /\ UNCHANGED tfirst
    /\ UNCHANGED << dvars, hvars, cvars, svars >>

\* process(instance) of the plugin.
Process ==
    /\ tpc = "ready"
    /\ \E instance \in Instances :
       \E plugin \in ProcessPlugins(instance) :
       \E profile \in ProcessProfiles(instance, plugin) :
       \E delivery_overrides_dict \in ProcessContexts(instance, plugin, profile) :
       \E result \in { process(instance, plugin, profile, delivery_overrides_dict,
                                profile_output_skeleton) } :
            /\ targs' = [ kind |-> "process", instance |-> instance,
                          plugin |-> plugin, profile |-> profile,
                          delivery_overrides_dict |-> delivery_overrides_dict ]
            /\ tret' = result
            /\ profile_output_skeleton' = result.skeleton
    /\ tpc' = "processed"
    /\ UNCHANGED tfirst
    /\ UNCHANGED << dvars, hvars, cvars, svars >>

\* process(instance) of the same plugin for the next instance of the
\* publish: _get_profile filters self.profiles again and finds the same
\* dictionary, whose "outputs" are what the call before left in it; the
\* context, and with it the Shotgrid overrides, is the one of the publish.
ProcessAgain ==
    /\ tpc = "processed"
    /\ targs.plugin.profiles /\ targs.plugin.oiio_supported
    /\ "representations" \in DOMAIN targs.instance
    /\ ~IsNone(targs.profile)
    /\ \E instance \in NextInstances :
       \E result \in { process(instance, targs.plugin,
                                [ targs.profile EXCEPT !.outputs = tret.outputs ],
                                targs.delivery_overrides_dict,
                                profile_output_skeleton) } :
            /\ tfirst' = [ kind |-> "process", targs |-> targs, tret |-> tret ]
            /\ targs' = [ kind |-> "process", instance |-> instance,
                          plugin |-> targs.plugin,
                          profile |-> [ targs.profile EXCEPT
                                          !.outputs = tret.outputs ],
                          delivery_overrides_dict |-> targs.delivery_overrides_dict,
                          skeleton |-> profile_output_skeleton ]
            /\ tret' = result
            /\ profile_output_skeleton' = result.skeleton
    /\ tpc' = "processed_again"
    /\ UNCHANGED << dvars, hvars, cvars, svars >>

\* The plugin is called again (the next instance of the publish); the
\* class attribute is what the calls before left.
PluginNext ==
    /\ tpc \in { "translated", "resolved_again", "processed", "processed_again" }
    /\ tpc' = "ready"
    /\ targs' = NoPluginCall
    /\ tret' = NoPluginCall
    /\ tfirst' = NoPluginCall
    /\ UNCHANGED profile_output_skeleton
    /\ UNCHANGED << dvars, hvars, cvars, svars >>

TranscodeNext ==
    \/ TranslateToSequence
    \/ GetSgOutputProfiles
    \/ GetSgOutputProfilesAgain
    \/ Process
    \/ ProcessAgain
    \/ PluginNext

TranscodeSpec == Init /\ [][TranscodeNext]_vars

\* --------------------------------------------------- the host's actions
\* The module's globals as one record, for the functions above.
HostState ==
    [ is_installed |-> _is_installed, registered_host |-> _registered_host,
      legacy_io |-> legacy_io, registry |-> registry,
      host_install_called |-> FALSE, host_uninstall_called |-> FALSE,
      outcome |-> "none", error |-> "" ]

\* The process's environment is set up or changed from outside.
SetEnviron ==
    /\ \E env \in Environments : env # environ /\ environ' = env
    /\ UNCHANGED << _is_installed, _registered_host, legacy_io, registry, hret, hlast >>
    /\ UNCHANGED << dvars, tvars, cvars, svars >>

\* install_host(host)
InstallHost ==
    /\ \E host \in Hosts :
        LET after == install_host(HostState, host, environ)
        IN  /\ _is_installed' = after.is_installed
            /\ _registered_host' = after.registered_host
            /\ legacy_io' = after.legacy_io
            /\ registry' = after.registry
            /\ hret' = [ fn |-> "install_host", outcome |-> after.outcome,
                         error |-> after.error, value |-> FALSE,
                         host_install_called |-> after.host_install_called,
                         host_uninstall_called |-> FALSE ]
            /\ hlast' = IF after.outcome = "return" THEN "installed" ELSE "failed"
    /\ UNCHANGED environ
    /\ UNCHANGED << dvars, tvars, cvars, svars >>

\* uninstall_host()
UninstallHost ==
    /\ LET after == uninstall_host(HostState)
       IN  /\ _is_installed' = after.is_installed
           /\ _registered_host' = after.registered_host
           /\ legacy_io' = after.legacy_io
           /\ registry' = after.registry
           /\ hret' = [ fn |-> "uninstall_host", outcome |-> after.outcome,
                        error |-> after.error, value |-> FALSE,
                        host_install_called |-> FALSE,
                        host_uninstall_called |-> after.host_uninstall_called ]
           /\ hlast' = "uninstalled"
    /\ UNCHANGED environ
    /\ UNCHANGED << dvars, tvars, cvars, svars >>

\* is_installed()
IsInstalled ==
    /\ hret' = [ fn |-> "is_installed", outcome |-> "return", error |-> "",
                 value |-> is_installed(_is_installed),
                 host_install_called |-> FALSE, host_uninstall_called |-> FALSE ]
    /\ UNCHANGED << _is_installed, _registered_host, legacy_io, registry, environ, hlast >>
    /\ UNCHANGED << dvars, tvars, cvars, svars >>

HostNext ==
    \/ SetEnviron
    \/ InstallHost
    \/ UninstallHost
    \/ IsInstalled

HostSpec == Init /\ [][HostNext]_vars

\* ------------------------------------------------ the context's actions
\* change_current_context(asset_doc, task_name)
ChangeCurrentContext ==
    /\ \E asset_doc \in ToSet(AssetDocs) \cup { None }, task_name \in ContextTasks :
       \E after \in { change_current_context(
                          [ Session |-> context_session, environ |-> context_environ ],
                          asset_doc, task_name) } :
          /\ context_session' = after.Session
          /\ context_environ' = after.environ
          /\ context_ret' = [ fn |-> "change_current_context",
                              asset_doc |-> asset_doc, task_name |-> task_name,
                              outcome |-> after.outcome, error |-> after.error,
                              changes |-> after.changes, event |-> after.event,
                              popped |-> DOMAIN context_environ \ DOMAIN after.environ ]
    /\ UNCHANGED << dvars, tvars, hvars, svars >>

ContextNext == ChangeCurrentContext

ContextSpec == Init /\ [][ContextNext]_vars

\* --------------------------------------------- the integrator's actions
\* IntegrateShotgridVersion.process(instance)
Integrate ==
    /\ \E instance \in IntegrateInstances :
       \E done \in { integrate_process(sg_store, instance) } :
          /\ sg_store' = done.store
          /\ integrate_ret' = [ fn |-> "process", instance |-> instance,
                                calls |-> done.calls,
                                shotgridVersion |-> done.version ]
    /\ UNCHANGED << dvars, tvars, hvars, cvars >>

IntegrateNext == Integrate

IntegrateSpec == Init /\ [][IntegrateNext]_vars

TypeOK ==
    /\ pc \in {"idle", "loop", "submit", "write", "returned", "raised"}
    /\ idx \in 1..(MaxVersions + 1)
    /\ success \in BOOLEAN

\* ================================================================ claims
\* The version has no usable cross reference to a pipeline version.
MissingId(sg_version) == sg_version.sg_op_instance_id \in {"", "-"}

\* The representations a delivery of the version is meant to copy: those
\* named by the caller, and the thumbnail.
IntendedRepresentations(sg_version, representation_names) ==
    SelectSeq(get_representations(sg_version.sg_op_instance_id),
              LAMBDA r : r.name \in ToSet(representation_names) \cup {"thumbnail"})

Colliding(repres) ==
    { i \in DOMAIN repres : repres[i].path \in DestinationCollisions }

\* A step of the loop that calls the per-version function on sg_version.
VersionStep(sg_version) ==
    /\ pc = "loop"
    /\ idx <= Len(call.sg_versions)
    /\ sg_version = call.sg_versions[idx]

\* The per-version function has just returned for the version of the step.
VersionReturned == pc' = "loop" /\ idx' = idx + 1

\* ---- C1 (as claimed): when the destination of exactly one of the N
\* representations of a version fails validation, deliver_version returns
\* success=False with N-1 entries under "Successful delivered
\* representations" and one failure entry.
C1_SiblingsDelivered ==
    ( /\ last.kind = "deliver"
      /\ ~MissingId(last.sg_version)
      /\ call.representation_names # <<>>
      /\ Cardinality(Colliding(IntendedRepresentations(
                         last.sg_version, call.representation_names))) = 1 )
    => LET N == Len(IntendedRepresentations(last.sg_version,
                                           call.representation_names))
           result == last.result
       IN  /\ result.outcome = "return"
           /\ ~result.success
           /\ SuccessMsg \in DOMAIN result.report
           /\ Len(result.report[SuccessMsg]) = N - 1
           /\ "Destination path collision" \in DOMAIN result.report
           /\ Len(result.report["Destination path collision"]) = 1

\* ---- C2 (as claimed): deliver_version returns a success flag, False
\* when a step of the version failed (no cross reference, none of the
\* representations found, a refused destination, a file not delivered)
\* and True otherwise.
DeliveryFails(sg_version, representation_names) ==
    LET repres == IntendedRepresentations(sg_version, representation_names) IN
    \/ MissingId(sg_version)
    \/ repres = <<>>
    \/ Colliding(repres) # {}
    \/ \E i \in DOMAIN repres :
          \E j \in DOMAIN repres[i].files : repres[i].files[j] \in FailingFiles

C2_SuccessFlag ==
    last.kind = "deliver"
    => /\ last.result.outcome = "return"
       /\ last.result.success =
              ~DeliveryFails(last.sg_version, call.representation_names)

\* ---- C3: a version whose sg_op_instance_id is empty or "-" makes the
\* per-version function return success=False with one entry under
\* "Missing 'sg_op_instance_id' field on SG Versions"; the loop of the
\* playlist function is then at the next version, its success is False,
\* and so is the success it returns.
MissingIdPassed ==
    \E i \in 1..(idx - 1) :
        i <= Len(call.sg_versions) /\ MissingId(call.sg_versions[i])

C3_MissingIdContinues ==
    /\ ( last.kind # "none" /\ MissingId(last.sg_version) )
       => /\ last.result.outcome = "return"
          /\ ~last.result.success
          /\ DOMAIN last.result.report = {MissingIdMsg}
          /\ Len(last.result.report[MissingIdMsg]) = 1
          /\ pc \in {"loop", "returned"}
          /\ call.sg_versions[idx - 1] = last.sg_version
    /\ ( pc \in {"loop", "submit", "write", "returned"} /\ call.fn # "None"
         /\ MissingIdPassed )
       => /\ ~success
          /\ MissingIdMsg \in DOMAIN report_items
    /\ ( pc = "returned" /\ call.fn # "None" /\ MissingIdPassed )
       => /\ ret.kind = "mapping"
          /\ ~ret.success
          /\ idx = Len(call.sg_versions) + 1

\* A playlist whose first version has the placeholder "-" and whose loop
\* stands at a later version.
C3_Witness ==
    /\ call.fn \in PlaylistFunctions
    /\ pc = "loop"
    /\ idx = 2 /\ Len(call.sg_versions) >= 2
    /\ call.sg_versions[1].sg_op_instance_id = "-"
    /\ last.kind # "none" /\ last.sg_version = call.sg_versions[1]

\* ---- C4 (as claimed): the report a playlist function returns holds,
\* under each message, every sub message any version recorded under it,
\* in processing order.
RECURSIVE Collected(_, _)
Collected(reports, msg) ==
    IF reports = <<>> THEN <<>>
    ELSE DefaultGet(Head(reports), msg) \o Collected(Tail(reports), msg)

C4_ReportAggregates ==
    ( pc = "returned" /\ call.fn \in PlaylistFunctions /\ ret.kind = "mapping" )
    => \A i \in DOMAIN version_reports :
         \A msg \in DOMAIN version_reports[i] :
            /\ msg \in DOMAIN ret.report
            /\ ret.report[msg] = Collected(version_reports, msg)

\* ---- C5 (as claimed): for a version with a valid cross reference,
\* deliver_version goes on to the representation lookup, and "thumbnail"
\* is among the names it looks up.
C5_ThumbnailAdded ==
    ( last.kind = "deliver" /\ ~MissingId(last.sg_version) )
    => /\ last.result.looked_up
       /\ "thumbnail" \in ToSet(last.result.lookup_names)

\* ---- C6 (as claimed): the hierarchy-override query looks up
\* representation names exactly when the caller supplied none, and always
\* delivery names.
C6_NamesQueriedWhenNotGiven ==
    ( last.kind = "deliver" /\ last.result.queried )
    => /\ last.result.query.query_representation_names
              = (call.representation_names = <<>>)
       /\ last.result.query.query_delivery_names

\* ---- C7: with force unset, a version that has its cross reference, its
\* version document and its 'exr' representation, and for which every
\* required representation name already exists (on the version for
\* republish_version, on the last delivery-subset version for
\* generate_delivery_media_version), makes the function return
\* success=True with the one "already exist" entry, whatever was called
\* before in the process; no farm job is submitted, no manifest is written
\* and the global session is unchanged.
RequiredNames(sg_version) ==
    ToSet(IF call.representation_names # <<>> THEN call.representation_names
          ELSE SGOverrideNames[sg_version.id].names)

ExistingNames(sg_version) ==
    IF IsRepublish(call.fn)
    THEN { r.name : r \in ToSet(OpRepresentations[sg_version.sg_op_instance_id]) }
    ELSE LastDeliveryRepNames(DeliverySubsetName(sg_version, call.description))

HasSource(sg_version) ==
    /\ ~MissingId(sg_version)
    /\ sg_version.sg_op_instance_id \in OpVersionIds
    /\ \E r \in ToSet(OpRepresentations[sg_version.sg_op_instance_id]) :
          r.name = "exr"

C7_ShortCircuit ==
    [][ \A sg_version \in SGVersions :
          ( /\ VersionStep(sg_version)
            /\ IsRepublish(call.fn) \/ IsGenerate(call.fn)
            /\ ~call.force
            /\ HasSource(sg_version)
            /\ RequiredNames(sg_version) \subseteq ExistingNames(sg_version) )
          => /\ VersionReturned
             /\ last'.sg_version = sg_version
             /\ last'.result.outcome = "return"
             /\ last'.result.success
             /\ DOMAIN last'.result.report = {AlreadyExistMsg(call.delivery_types)}
             /\ last'.result.report[AlreadyExistMsg(call.delivery_types)]
                    = << SubMsg(sg_version) >>
             /\ success' = success
             /\ Session' = Session
             /\ submitted' = submitted
             /\ manifests' = manifests ]_vars

\* The short circuit taken in a call that submitted nothing, in a process
\* whose session an earlier call has written.
C7_Witness ==
    /\ last.kind \in {"republish", "generate"}
    /\ ~call.force
    /\ last.result.outcome = "return" /\ last.result.success
    /\ HasSource(last.sg_version)
    /\ submitted = <<>> /\ manifests = <<>>
    /\ Session # EmptySession

\* ---- C8: a manifest is written only after the farm submission of that
\* version has returned; when the submission raises, no manifest is
\* written for the version, nothing is returned, and the run does nothing
\* more: no later version of the playlist is processed.
C8_ManifestAfterSubmission ==
    [][ /\ Len(manifests') > Len(manifests)
           => /\ pc = "write"
              /\ Len(manifests') = Len(manifests) + 1
              /\ Len(submitted) = Len(manifests')
              /\ submitted[Len(submitted)].metadata_path
                     = manifests'[Len(manifests')].path
        /\ ( pc = "submit" /\ pc' = "raised" )
           => /\ manifests' = manifests
              /\ submitted' = submitted
              /\ ret' = NoReturn
              /\ idx' = idx
        /\ pc # "raised" ]_vars

\* The submission of the first version of a longer playlist has raised.
C8_Witness ==
    /\ pc = "raised"
    /\ call.fn \in {"republish_playlist_id", "generate_delivery_media_playlist_id"}
    /\ instance_data # NoInstance
    /\ idx = 1 /\ Len(call.sg_versions) >= 2
    /\ manifests = <<>>

\* ---- C9: a version without cross reference, without version document
\* or without 'exr' representation makes republish_version and
\* generate_delivery_media_version return success=False with a report
\* entry, whatever force is; no farm job is submitted, no manifest is
\* written and the global session is unchanged.
C9_TerminalFailure ==
    [][ \A sg_version \in SGVersions :
          ( /\ VersionStep(sg_version)
            /\ IsRepublish(call.fn) \/ IsGenerate(call.fn)
            /\ ~HasSource(sg_version) )
          => /\ VersionReturned
             /\ last'.sg_version = sg_version
             /\ last'.result.outcome = "return"
             /\ ~last'.result.success
             /\ DOMAIN last'.result.report # {}
             /\ \A msg \in DOMAIN last'.result.report :
                    last'.result.report[msg] # <<>>
             /\ ~success'
             /\ Session' = Session
             /\ submitted' = submitted
             /\ manifests' = manifests ]_vars

\* A forced call has met a version without 'exr' representation.
C9_Witness ==
    /\ last.kind \in {"republish", "generate"}
    /\ call.force
    /\ last.sg_version.sg_op_instance_id = "op4"
    /\ ~last.result.success
    /\ pc = "loop"

\* ---- C10 (as claimed): when the project of the playlist is not in the
\* pipeline's project store, no version is processed, success is False,
\* and the report returned is a mapping that holds the project-not-found
\* message.
C10_ProjectNotFound ==
    ( /\ pc = "returned"
      /\ call.fn \in PlaylistFunctions
      /\ ~get_project(call.project_name) )
    => /\ last = NoLast
       /\ version_reports = <<>>
       /\ ~ret.success
       /\ ret.kind = "mapping"
       /\ ProjectNotFoundMsg(call.project_name) \in DOMAIN ret.report

C12_TokenAsClaimed ==
    (tpc = "translated" /\ targs.files_to_convert = SequenceA) =>
        /\ tret.outcome = "return"
        /\ tret.files = << << "a", "1", "0", "0", "1", "-", "1", "0", "0", "3",
                              "#", ".", "e", "x", "r" >> >>

\* The files of the list are frames of one stem, at least two of them.
OneFrameRun(files) ==
    /\ Len(files) >= 2
    /\ \E stem \in { f.stem : f \in Frames } :
         \A i \in DOMAIN files :
           \E f \in Frames : f.stem = stem /\ files[i] = FrameFile(f.stem, f.frame)

FrameOf(file_name) == CHOOSE f \in Frames : FrameFile(f.stem, f.frame) = file_name

\* C12 (amended): _translate_to_sequence applied to ["a.1001.exr",
\* "a.1002.exr", "a.1003.exr"] returns the single token "a.1001-1003#.exr":
\* the head is the text up to and including the dot before the frame
\* number ("a."), the tail is ".exr".  In general a list of the frames of
\* one stem is collapsed to the one token
\* stem + "." + lowest index + "-" + highest index + "#" + ".exr", the
\* indexes written in decimal without leading zeros.
C12_SequenceToken ==
    tpc = "translated" =>
        LET files == targs.files_to_convert IN
        /\ files = SequenceA =>
             /\ tret.outcome = "return"
             /\ tret.files = << << "a", ".", "1", "0", "0", "1", "-", "1", "0",
                                   "0", "3", "#", ".", "e", "x", "r" >> >>
        /\ OneFrameRun(files) =>
             LET run == { FrameOf(files[i]) : i \in DOMAIN files }
                 lowest == CHOOSE f \in run : \A o \in run : f.number <= o.number
                 highest == CHOOSE f \in run : \A o \in run : f.number >= o.number
             IN  /\ tret.outcome = "return"
                 /\ tret.files = << lowest.stem \o <<".">> \o lowest.decimal
                                    \o <<"-">> \o highest.decimal
                                    \o << "#", ".", "e", "x", "r" >> >>

\* The documented example was translated, and so was a run whose lowest
\* frame number is written with a leading zero.
C12_Witness ==
    /\ tpc = "translated"
    /\ OneFrameRun(targs.files_to_convert)
    /\ \E i \in DOMAIN targs.files_to_convert :
         FrameOf(targs.files_to_convert[i]).number = 998
    /\ \E i \in DOMAIN targs.files_to_convert :
         FrameOf(targs.files_to_convert[i]).number = 1001
    /\ Len(tret.files) = 1

\* The call of process() got past its early returns: the plugin has
\* profiles, OIIO is there, the instance has representations and a profile
\* was found.
ProcessRan ==
    /\ tpc = "processed"
    /\ targs.plugin.profiles /\ targs.plugin.oiio_supported
    /\ "representations" \in DOMAIN targs.instance
    /\ ~IsNone(targs.profile)

\* A representation the loop of process() transcodes: supported
\* extension, files, colorspace data and an existing config file.
Transcodable(repre) ==
    /\ "ext" \in DOMAIN repre /\ repre.ext \in { EXR, JPG, PNG }
    /\ "colorspaceData" \in DOMAIN repre
    /\ "config" \in DOMAIN repre.colorspaceData
    /\ repre.colorspaceData.config.path = "aces.ocio"

\* The files of the representation are frames of more than one stem, two
\* or more of each of two stems: more than one frame collection.
Ambiguous(repre) ==
    /\ repre.files.list
    /\ \E s1, s2 \in { f.stem : f \in Frames } :
         /\ s1 # s2
         /\ \A stem \in { s1, s2 } :
              Cardinality({ i \in DOMAIN repre.files.names :
                  \E f \in Frames : /\ f.stem = stem
                                    /\ repre.files.names[i] = FrameFile(f.stem, f.frame) })
                >= 2

\* C13: when the file names of a representation assemble into more than
\* one frame collection (and the profile has an output definition left for
\* the instance, so that there is a transcode), the transcode of that
\* representation raises at once: process() ends with the exception
\* (ValueError, unless it raised before the loop), no conversion is invoked
\* for a file of that representation and the instance's representation
\* list holds the same representations as before the call, none added.
C13_AmbiguousSequenceRaises ==
    (ProcessRan /\ tret.outputs # <<>>
                /\ \E i \in DOMAIN targs.instance.representations :
                      /\ Transcodable(targs.instance.representations[i])
                      /\ Ambiguous(targs.instance.representations[i])) =>
        LET before == targs.instance.representations
            after == tret.instance.representations
            k == CHOOSE i \in DOMAIN before :
                     Transcodable(before[i]) /\ Ambiguous(before[i])
        IN  /\ tret.outcome = "raise"
            /\ tret.error \in { "ValueError", "TypeError", "KeyError" }
            /\ (~NoOverrides(targs.delivery_overrides_dict)
                /\ { "review", "final" } \subseteq DictKeys(targs.profile.outputs))
               => tret.error = "ValueError"
            /\ \A c \in DOMAIN tret.conversions :
                 /\ tret.conversions[c].input_path.name
                      \notin ToSet(before[k].files.names)
                 /\ \E j \in 1..(k - 1) : Transcodable(before[j])
            /\ tret.new_representations = <<>> \/ k > 1
            /\ Len(after) = Len(before)
            /\ \A i \in DOMAIN before : /\ after[i].name = before[i].name
                                        /\ after[i].files = before[i].files

\* An ambiguous representation came second: the first one was converted,
\* then the ValueError ended process().
C13_Witness ==
    /\ ProcessRan
    /\ Len(targs.instance.representations) = 2
    /\ Ambiguous(targs.instance.representations[2])
    /\ tret.outcome = "raise" /\ tret.error = "ValueError"
    /\ tret.conversions # <<>>

\* The representations of the instance that were there before the call
\* and are still in its list after it (the new ones follow them).
KeptOriginals ==
    SubSeq(tret.instance.representations, 1,
           Len(tret.instance.representations) - Len(tret.new_representations))

TagsOf(repre) == IF "tags" \in DOMAIN repre THEN ToSet(repre.tags) ELSE {}

\* ---- C14 (as claimed): no representation produced by the extractor
\* carries the tag "shotgridreview", whatever the tags of the source
\* representation and of the output definition; the tags of the source
\* representation are not changed by the stripping.
C14_NoShotgridReviewOnOutputs ==
    (ProcessRan /\ tret.outcome = "return") =>
        /\ \A i \in DOMAIN tret.new_representations :
             "shotgridreview" \notin TagsOf(tret.new_representations[i])
        /\ \A i \in DOMAIN KeptOriginals :
             \A j \in DOMAIN targs.instance.representations :
               KeptOriginals[i].name = targs.instance.representations[j].name =>
                 ("shotgridreview" \in TagsOf(KeptOriginals[i]))
                   = ("shotgridreview" \in TagsOf(targs.instance.representations[j]))

\* The outputs the loop of process() ran with, when it got there.
Transcoded(repre) ==
    /\ ProcessRan /\ tret.outcome = "return"
    /\ Transcodable(repre)
    /\ tret.outputs # <<>>

\* ---- C15 (as claimed): after process(), an original representation
\* from which a transcoded one was produced is marked for deletion and
\* removed from the instance's list if and only if delete_original is set
\* and its tags do not include "thumbnail"; a thumbnail-tagged original is
\* neither marked nor removed.
C15_DeleteOriginalUnlessThumbnail ==
    (ProcessRan /\ tret.outcome = "return") =>
        \A j \in DOMAIN targs.instance.representations :
          LET original == targs.instance.representations[j]
              kept == { i \in DOMAIN KeptOriginals :
                          KeptOriginals[i].name = original.name }
          IN  Transcoded(original) =>
                /\ (kept = {}) = (targs.profile.delete_original
                                  /\ "thumbnail" \notin TagsOf(original))
                /\ "thumbnail" \in TagsOf(original) =>
                     /\ kept # {}
                     /\ \A i \in kept : "delete" \notin TagsOf(KeptOriginals[i])

\* The names of the output definitions that apply to the instance: those
\* of the profile, then those of Shotgrid that are not among them, without
\* 'review' / 'final' when the instance is not of the family.
RECURSIVE SgOutputNames(_)
SgOutputNames(outputs) ==
    IF outputs = <<>> THEN <<>>
    ELSE << Head(outputs).name >> \o SgOutputNames(Tail(outputs))

ApplicableOutputs(profile, sg_names, families) ==
    LET own == SgOutputNames(profile.outputs)
        merged == own \o SelectSeq(sg_names, LAMBDA n : n \notin ToSet(own))
    IN  SelectSeq(merged,
                  LAMBDA n : /\ ~(n = "review" /\ "client_review" \notin ToSet(families))
                             /\ ~(n = "final" /\ "client_final" \notin ToSet(families)))

\* The Shotgrid output names of the overrides process() is explored with.
SgNamesOf(delivery_overrides_dict) ==
    IF NoOverrides(delivery_overrides_dict) THEN <<>>
    ELSE LET project == SgOutputNames(delivery_overrides_dict.project.sg_review_output_type)
             shot == SgOutputNames(delivery_overrides_dict.shot.sg_review_output_type)
         IN  IF shot # <<>> THEN shot ELSE project

\* The names process() is expected to give the new representations: for
\* every valid source in turn, one per applicable output, the output's
\* name or the source's under "passthrough".
RECURSIVE ExpectedNames(_, _)
ExpectedNames(representations, output_names) ==
    IF representations = <<>> THEN <<>>
    ELSE (IF Transcodable(Head(representations))
          THEN [ i \in DOMAIN output_names |->
                   IF output_names[i] = "passthrough"
                   THEN Head(representations).name ELSE output_names[i] ]
          ELSE <<>>)
         \o ExpectedNames(Tail(representations), output_names)

\* ---- C16 (as claimed): process() appends exactly one new representation
\* per (valid source representation, applicable output definition) pair,
\* named after the output, or after the source under "passthrough";
\* invalid sources yield none.  (Instances with a representation of
\* ambiguous file names are left to C13.)
C16_OnePerSourceAndOutput ==
    (ProcessRan /\ \A i \in DOMAIN targs.instance.representations :
                     ~Ambiguous(targs.instance.representations[i])) =>
        LET expected == ExpectedNames(
                            targs.instance.representations,
                            ApplicableOutputs(targs.profile,
                                              SgNamesOf(targs.delivery_overrides_dict),
                                              targs.instance.families))
            after == tret.instance.representations
            added == SubSeq(after, Len(after) - Len(expected) + 1, Len(after))
        IN  /\ Len(tret.new_representations) = Len(expected)
            /\ Len(after) >= Len(expected)
            /\ \A i \in DOMAIN expected : added[i].name = expected[i]

\* The outputs of delivery type T an entity defines whose extension the
\* extractor supports.
SupportedOutputs(ent_overrides, delivery_type) ==
    SelectSeq(EntOutputs(ent_overrides, delivery_type),
              LAMBDA o : o.value.sg_extension \in supported_exts)

\* The resolved profiles have the output o of delivery type T of the
\* entity: an entry of its name, with its extension and the entity's tags
\* of that type.
HasOutput(sg_profiles, ent_overrides, delivery_type, o) ==
    \E i \in DOMAIN sg_profiles :
        /\ sg_profiles[i].name = o.name
        /\ sg_profiles[i].value.extension = o.value.sg_extension
        /\ sg_profiles[i].value.tags = EntTags(ent_overrides, delivery_type)

\* ---- C17 (as claimed): in get_sg_output_profiles, for each delivery type
\* T of review and final: when the shot defines an output for T, the
\* result has no project-level output of type T (one the shot does not
\* define itself); when the shot defines none for T, every project-level
\* output of type T with a supported extension is kept.
C17_ShotOverridesProjectPerType ==
    (tpc = "resolved" /\ tret.returned = "tuple") =>
        LET project == targs.delivery_overrides_dict.project
            shot == targs.delivery_overrides_dict.shot
        IN  \A delivery_type \in { "review", "final" } :
              LET shot_outputs == EntOutputs(shot, delivery_type)
                  project_outputs == SupportedOutputs(project, delivery_type)
              IN  \A k \in DOMAIN project_outputs :
                    IF shot_outputs # <<>>
                    THEN (\A j \in DOMAIN shot_outputs :
                             shot_outputs[j].name # project_outputs[k].name)
                         => ~HasOutput(tret.sg_profiles, project, delivery_type,
                                       project_outputs[k])
                    ELSE HasOutput(tret.sg_profiles, project, delivery_type,
                                   project_outputs[k])

\* ---- C18: resolving the Shotgrid output profiles twice on an unchanged
\* overrides dictionary gives the same result both times, and the calls
\* leave the overrides dictionary and the class's profile_output_skeleton
\* as they were.
C18_ResolveTwiceSame ==
    (tpc = "resolved_again") =>
        /\ tret.returned = tfirst.returned
        /\ tret.sg_profiles = tfirst.sg_profiles
        /\ tret.lut_colorspace_review = tfirst.lut_colorspace_review
        /\ targs.context = targs.delivery_overrides_dict
        /\ tfirst.delivery_overrides_dict = targs.delivery_overrides_dict
        /\ profile_output_skeleton = ProfileOutputSkeleton
        /\ tfirst.skeleton = ProfileOutputSkeleton

\* C18 witness: the second call has returned, for overrides where the shot
\* replaces project outputs and the result has two profiles.
C18_Witness ==
    /\ tpc = "resolved_again"
    /\ tret.returned = "tuple"
    /\ Len(tret.sg_profiles) >= 2
    /\ targs.delivery_overrides_dict.project.sg_review_output_type # <<>>
    /\ targs.delivery_overrides_dict.shot.sg_review_output_type # <<>>

\* ---- C19 (as claimed): when the publish context carries no Shotgrid
\* delivery overrides, process() goes on to transcode with the output
\* definitions of the settings profile and does not raise.
C19_NoOverridesTranscodes ==
    (ProcessRan /\ NoOverrides(targs.delivery_overrides_dict)) =>
        tret.outcome = "return"

\* ---- C20 (as claimed): is_installed() returns the state of
\* installation after any sequence of install_host / uninstall_host calls:
\* True when the latest of them was an install_host that completed, False
\* before any install_host, after uninstall_host, and when install_host
\* failed its check of the session keys.
C20_IsInstalledTellsState ==
    (hret.fn = "is_installed") => (hret.value = (hlast = "installed"))

\* The asset documents of the given SG entity type in the visual hierarchy
\* of the asset.
LevelsOfType(asset_doc, sg_entity_type) ==
    { i \in DOMAIN VisualHierarchy(asset_doc) :
        VisualHierarchy(asset_doc)[i].data.sgEntityType = sg_entity_type }

\* The environment variable is set to the name of the hierarchy level of
\* the type, and unset when the hierarchy has no level of the type.
LevelVariable(env, asset_doc, key, sg_entity_type) ==
    IF LevelsOfType(asset_doc, sg_entity_type) = {}
    THEN key \notin DOMAIN env
    ELSE /\ key \in DOMAIN env
         /\ \E i \in LevelsOfType(asset_doc, sg_entity_type) :
              env[key] = VisualHierarchy(asset_doc)[i].name

\* ---- C21: after change_current_context with an asset document, SHOW is
\* the code of the project, SEASON, EPISODE, SEQ, SHOT and ASSET_TYPE are
\* the names of the levels of the asset's hierarchy and unset where it has
\* no such level, and SHOTNUM is the last '_'-separated token of SHOT and
\* unset without a SHOT; nothing of an earlier context is left.
C21_HierarchyEnvOfLatestAsset ==
    (context_ret.fn = "change_current_context" /\ context_ret.outcome = "return") =>
        /\ "SHOW" \in DOMAIN context_environ
        /\ context_environ.SHOW = ContextProject.data.code
        /\ LevelVariable(context_environ, context_ret.asset_doc, "SEASON", "Season")
        /\ LevelVariable(context_environ, context_ret.asset_doc, "EPISODE", "Episode")
        /\ LevelVariable(context_environ, context_ret.asset_doc, "SEQ", "Sequence")
        /\ LevelVariable(context_environ, context_ret.asset_doc, "SHOT", "Shot")
        /\ LevelVariable(context_environ, context_ret.asset_doc, "ASSET_TYPE", "Asset")
        /\ ("SHOTNUM" \in DOMAIN context_environ) = ("SHOT" \in DOMAIN context_environ)
        /\ "SHOT" \in DOMAIN context_environ =>
             \E i \in 0..Len(context_environ.SHOT) :
                /\ context_environ.SHOTNUM =
                     SubSeq(context_environ.SHOT, i + 1, Len(context_environ.SHOT))
                /\ i > 0 => context_environ.SHOT[i] = "_"
                /\ \A j \in DOMAIN context_environ.SHOTNUM :
                     context_environ.SHOTNUM[j] # "_"

\* C21 witness: the context changed from a shot under a season to an asset
\* of another kind: SEASON, set before the call, was popped by it.
C21_Witness ==
    /\ context_ret.fn = "change_current_context"
    /\ context_ret.outcome = "return"
    /\ "AVALON_ASSET" \in DOMAIN context_ret.changes
    /\ { "SEASON", "SHOTNUM" } \subseteq context_ret.popped
    /\ "ASSET_TYPE" \in DOMAIN context_environ

\* The versions of the call already gone through that have a cross
\* reference, a version document and an 'exr' representation.
SourcedBefore ==
    { i \in 1..(idx - 1) : HasSource(call.sg_versions[i]) }

\* ---- C22: with force set, republish_version and
\* generate_delivery_media_version skip the existing-representation check:
\* every version gone through that has a cross reference, a version
\* document and an 'exr' representation has exactly one farm job submitted
\* and exactly one manifest written, also when every required
\* representation exists already and when no representation names were
\* given; the other versions have none.
C22_ForcedOneJobOneManifest ==
    ( /\ pc \in { "loop", "returned" }
      /\ IsRepublish(call.fn) \/ IsGenerate(call.fn)
      /\ call.force )
    => /\ Len(submitted) = Cardinality(SourcedBefore)
       /\ Len(manifests) = Cardinality(SourcedBefore)
       /\ \A i \in 1..(idx - 1) :
            Cardinality({ m \in DOMAIN manifests :
                            manifests[m].sg_version = call.sg_versions[i] })
              = IF i \in SourcedBefore THEN 1 ELSE 0
       /\ \A m \in DOMAIN manifests :
            submitted[m].metadata_path = manifests[m].path

\* C22 witness: a forced call without representation names has written
\* the manifest of a version whose required representations all exist.
C22_Witness ==
    /\ pc = "returned"
    /\ IsRepublish(call.fn) \/ IsGenerate(call.fn)
    /\ call.force
    /\ call.representation_names = <<>>
    /\ Len(call.sg_versions) = 2
    /\ \E m \in DOMAIN manifests :
         RequiredNames(manifests[m].sg_version)
            \subseteq ExistingNames(manifests[m].sg_version)

\* ---- C23 (as claimed): the instance republish_version and
\* generate_delivery_media_version build for a version has families that
\* contain "review" and exactly one "client_<type>" for each requested
\* delivery type, its frameStartHandle is frameStart - handleStart and its
\* frameEndHandle is frameEnd + handleEnd, and these two are the
\* frameStart and frameEnd written to the manifest.
C23_FamiliesAndFrameRange ==
    /\ instance_data # NoInstance =>
         /\ "review" \in ToSet(instance_data.families)
         /\ \A t \in ToSet(call.delivery_types) :
              Cardinality({ i \in DOMAIN instance_data.families :
                              instance_data.families[i] = "client_" \o t }) = 1
         /\ instance_data.frameStartHandle =
              instance_data.frameStart - instance_data.handleStart
         /\ instance_data.frameEndHandle =
              instance_data.frameEnd + instance_data.handleEnd
    /\ \A m \in DOMAIN manifests :
         /\ manifests[m].publish_job.frameStart =
              manifests[m].publish_job.instances[1].frameStartHandle
         /\ manifests[m].publish_job.frameEnd =
              manifests[m].publish_job.instances[1].frameEndHandle

\* ---- C24 (as claimed): every representation of a version deliver_version
\* delivers has one template choice: with a templates dictionary, the
\* template string made of the entry "Sequence" (frame token in the
\* context) or "Single File" (none), "V0 "-prefixed for version 0, and no
\* template key; without one, the key "sequence" or "single_file" and no
\* template string.
C24_OneTemplateChoice ==
    ( /\ last.kind = "deliver"
      /\ ~MissingId(last.sg_version)
      /\ IntendedRepresentations(last.sg_version, call.representation_names) # <<>> )
    => /\ last.result.templates # <<>>
       /\ \A i \in DOMAIN last.result.templates :
            LET repre == IntendedRepresentations(
                             last.sg_version, call.representation_names)[i]
                chosen == last.result.templates[i]
                entry == (IF repre.version = 0 THEN "V0 " ELSE "")
                            \o (IF repre.frame # "" THEN "Sequence"
                                ELSE "Single File")
            IN  IF call.delivery_templates # "None"
                THEN /\ chosen.delivery_template_name = "None"
                     /\ chosen.delivery_template =
                          "/proj/" \o ProjectCode \o "/io/out/" \o TemplateEntries[entry]
                ELSE /\ chosen.delivery_template = "None"
                     /\ chosen.delivery_template_name =
                          IF repre.frame # "" THEN "sequence" ELSE "single_file"

\* ---- C25 (as claimed): deliver_version_id, republish_version_id and
\* generate_delivery_media_version_id, called with an id Shotgrid has no
\* Version for, return (report, False) with a report entry that names the
\* problem; none of them raises.
C25_UnknownVersionReported ==
    ( /\ call.fn \in Functions \ PlaylistFunctions
      /\ call.sg_versions = <<>> )
    => /\ pc = "returned"
       /\ ret.kind = "mapping"
       /\ ~ret.success
       /\ DOMAIN ret.report # {}
       /\ \A msg \in DOMAIN ret.report : ret.report[msg] # <<>>

\* The 'exr' representation of the pipeline version of an SG Version.
ExrOf(sg_version) ==
    CHOOSE r \in ToSet(OpRepresentations[sg_version.sg_op_instance_id]) :
        r.name = "exr"

\* ---- C26: the session stored in the manifest of a version has the
\* project of the call, the asset and the task of the version's 'exr'
\* representation, the application "traypublisher" and the work directory
\* of that version (the folder of the 'exr' files for a republish, the
\* temp_delivery folder of the work folder of its project, asset and task
\* for a generate), whatever went through the global session before.
C26_ManifestSessionOfItsVersion ==
    \A m \in DOMAIN manifests :
       LET session == manifests[m].publish_job.session
           exr == ExrOf(manifests[m].sg_version)
       IN  /\ session.AVALON_PROJECT = call.project_name
           /\ session.AVALON_ASSET = exr.asset
           /\ session.AVALON_TASK = exr.task
           /\ session.AVALON_APP = "traypublisher"
           /\ session.AVALON_WORKDIR =
                IF IsRepublish(call.fn)
                THEN SubSeq(exr.path, 1, Len(exr.path) - 1)
                ELSE << "proj", call.project_name, exr.asset, "work", exr.task,
                        "temp_delivery" >>

\* C26 witness: a playlist call has written two manifests one after the
\* other through the global session, of versions of different assets and
\* tasks.
C26_Witness ==
    /\ Len(manifests) = 2
    /\ IsGenerate(call.fn)
    /\ manifests[1].publish_job.session.AVALON_ASSET
         # manifests[2].publish_job.session.AVALON_ASSET
    /\ manifests[1].publish_job.session.AVALON_TASK
         # manifests[2].publish_job.session.AVALON_TASK

\* The paths of the whole file names of the new representations in the
\* new staging directory.
OutputFilePaths(new_representations) ==
    UNION { { [ dir |-> new_representations[i].stagingDir, name |-> n ] :
                n \in ToSet(new_representations[i].files.names) } :
            i \in DOMAIN new_representations }

\* ---- C27 (as claimed): the paths process() appends to cleanupFullPaths
\* are the new staging directory joined with a whole output file name of a
\* transcoded representation, and the path of every output file of every
\* transcoded representation is appended, for sequences and single files
\* and for output definitions with and without an extension.
C27_CleanupPathsAreOutputFiles ==
    (ProcessRan /\ tret.outcome = "return") =>
        ToSet(tret.cleanup) = OutputFilePaths(tret.new_representations)

\* A sequence token head + "<first>-<last>#" + tail read back: the head,
\* the tail and the first and the last frame of the run it denotes.
TokenRun(token) ==
    LET hash == CHOOSE p \in DOMAIN token : token[p] = "#"
        dash == CHOOSE d \in 1..hash :
                   /\ token[d] = "-"
                   /\ \A k \in (d + 1)..(hash - 1) : IsDigit(token[k])
        start == CHOOSE s \in 1..dash :
                   /\ \A k \in s..(dash - 1) : IsDigit(token[k])
                   /\ s > 1 => ~IsDigit(token[s - 1])
    IN  [ head |-> SubSeq(token, 1, start - 1),
          tail |-> SubSeq(token, hash + 1, Len(token)),
          first |-> StrToInt(SubSeq(token, start, dash - 1)),
          last |-> StrToInt(SubSeq(token, dash + 1, hash - 1)) ]

IsToken(name) == \E p \in DOMAIN name : name[p] = "#"

\* The file name is the frame of the given number of the run of the token.
IsFrameOfRun(file_name, run, number) ==
    \E f \in Frames :
        /\ file_name = FrameFile(f.stem, f.frame)
        /\ f.stem \o <<".">> = run.head
        /\ <<".">> \o EXR = run.tail
        /\ f.number = number

\* ---- C28 (as claimed): what _translate_to_sequence returns denotes
\* exactly the input files: the input list itself when no frame collection
\* is found, and otherwise one token whose run covers every input file (no
\* file is left out) and has no frame that is not an input file (no gap is
\* filled).
C28_TokensDenoteInput ==
    (tpc = "translated" /\ tret.outcome = "return") =>
        IF \A i \in DOMAIN tret.files : ~IsToken(tret.files[i])
        THEN tret.files = targs.files_to_convert
        ELSE /\ Len(tret.files) = 1
             /\ \A i \in DOMAIN targs.files_to_convert :
                  \E n \in TokenRun(tret.files[1]).first..TokenRun(tret.files[1]).last :
                     IsFrameOfRun(targs.files_to_convert[i],
                                  TokenRun(tret.files[1]), n)
             /\ \A n \in TokenRun(tret.files[1]).first..TokenRun(tret.files[1]).last :
                  \E i \in DOMAIN targs.files_to_convert :
                     IsFrameOfRun(targs.files_to_convert[i],
                                  TokenRun(tret.files[1]), n)

\* ---- C29 (as claimed): process() leaves the outputs of the plugin's
\* profile as they were configured, and a second instance processed by the
\* same plugin ends as it would have ended had it been processed first:
\* same outcome, same output definitions, same new representations.
C29_ProfilesUnchanged ==
    /\ ProcessRan => tret.outputs = targs.profile.outputs
    /\ tpc = "processed_again" =>
         \E alone \in { process(targs.instance, targs.plugin, tfirst.targs.profile,
                                targs.delivery_overrides_dict, targs.skeleton) } :
            /\ tret.outcome = alone.outcome
            /\ tret.error = alone.error
            /\ tret.outputs = alone.outputs
            /\ tret.new_representations = alone.new_representations

\* The Versions of the site that have the project, task, entity and code
\* of the instance.
VersionsOf(instance) ==
    { i \in DOMAIN sg_store :
        /\ sg_store[i].project = ShotgridProject
        /\ sg_store[i].sg_task = ShotgridTask
        /\ sg_store[i].entity = instance.shotgridEntity
        /\ sg_store[i].code = VersionCode(instance) }

\* ---- C30: IntegrateShotgridVersion finds or creates: whatever runs of
\* process() came before, the site has at most one Version for a project,
\* task, entity and code; a run for an instance not marked for the farm
\* creates at most one Version, and only when there was none, and its
\* uploads and its update go to the one Version of the instance; a run
\* for an instance marked for the farm makes no Shotgrid call.
C30_FindOrCreate ==
    /\ \A i, j \in DOMAIN sg_store :
         ( /\ sg_store[i].project = sg_store[j].project
           /\ sg_store[i].sg_task = sg_store[j].sg_task
           /\ sg_store[i].entity = sg_store[j].entity
           /\ sg_store[i].code = sg_store[j].code ) => i = j
    /\ integrate_ret.fn = "process" =>
         IF integrate_ret.instance.farm
         THEN integrate_ret.calls = <<>>
         ELSE /\ Cardinality(VersionsOf(integrate_ret.instance)) = 1
              /\ Cardinality({ c \in DOMAIN integrate_ret.calls :
                                 integrate_ret.calls[c].call = "create" }) <= 1
              /\ Cardinality({ c \in DOMAIN integrate_ret.calls :
                                 integrate_ret.calls[c].call = "update" }) = 1
              /\ \A c \in DOMAIN integrate_ret.calls :
                   integrate_ret.calls[c].call \in { "create", "upload", "update" }
                   => \E i \in VersionsOf(integrate_ret.instance) :
                         integrate_ret.calls[c].id = sg_store[i].id

\* C30 witness: a run has found the Version an earlier run created for the
\* same code, uploaded the movie to it and updated it, creating nothing.
C30_Witness ==
    /\ integrate_ret.fn = "process"
    /\ ~integrate_ret.instance.farm
    /\ integrate_ret.instance.version = 2
    /\ Len(sg_store) = 3
    /\ \A c \in DOMAIN integrate_ret.calls : integrate_ret.calls[c].call # "create"
    /\ \E c \in DOMAIN integrate_ret.calls : integrate_ret.calls[c].call = "upload"

====
